---- MODULE Spec2Model ----
(***************************************************************************)
(* Qlik2Review: batch analysis of sheet objects (lib/analyzer.js), its     *)
(* caller (Qlik2Review.js analyzeSheet / cancelAnalysis), the usage        *)
(* aggregator (lib/token-tracker.js) and the retry utility (the './retry'  *)
(* module bundled in lib/anthropic.js).                                    *)
(*                                                                         *)
(* JavaScript runs each synchronous stretch of code to completion, so one  *)
(* action is one stretch between two awaits: from the event that resumes   *)
(* the code (a click, a settled promise, a timer) to the next await.       *)
(***************************************************************************)
EXTENDS Integers, Sequences, FiniteSets, TLC

(***************************************************************************)
(* Bounds of the model                                                     *)
(***************************************************************************)
\* largest number of objects left on the sheet after filtering
MaxItems == 5

\* largest attempt number getRetryDelay is applied to on its own
MaxAttempt == 4

\* largest number of usages added to one total on its own
MaxDeltas == 3

(***************************************************************************)
(* Values                                                                  *)
(***************************************************************************)
\* JavaScript null and undefined where an object is expected, and null
\* where a string is expected
Null == [null |-> TRUE]
Undefined == [undefined |-> TRUE]
NullString == "<null>"
\* a promise that has not settled yet
Pending == [pending |-> TRUE]

Min(a, b) == IF a < b THEN a ELSE b
Max(a, b) == IF a > b THEN a ELSE b

\* analyzer.js: var BATCH_SIZE = 3
BATCH_SIZE == 3

\* a progress text: 'Analyzing x-y of n', 'Completed x/n objects', or a fixed text
ProgressOf(text, x, y, n) == [text |-> text, x |-> x, y |-> y, n |-> n]
Progress(text) == ProgressOf(text, 0, 0, 0)

\* the error every cancellation check throws
AnalysisCancelled == "Analysis cancelled"

(***************************************************************************)
(* lib/token-tracker.js                                                    *)
(***************************************************************************)
\* model names are character sequences: getPricing matches substrings
\* the model identifiers: the keys of PRICING, identifiers a user may
\* configure, and two names every object inherits from Object.prototype
ModelNames ==
  [gpt4omini |-> <<"g","p","t","-","4","o","-","m","i","n","i">>,
   gpt4o |-> <<"g","p","t","-","4","o">>,
   gpt4turbo |-> <<"g","p","t","-","4","-","t","u","r","b","o">>,
   gpt35turbo |-> <<"g","p","t","-","3",".","5","-","t","u","r","b","o">>,
   haiku |-> <<"c","l","a","u","d","e","-","3","-","h","a","i","k","u","-","2","0","2","4","0","3","0","7">>,
   sonnet35 |-> <<"c","l","a","u","d","e","-","3","-","5","-","s","o","n","n","e","t","-","2","0","2","4","1","0","2","2">>,
   sonnet3 |-> <<"c","l","a","u","d","e","-","3","-","s","o","n","n","e","t","-","2","0","2","4","0","2","2","9">>,
   opus3 |-> <<"c","l","a","u","d","e","-","3","-","o","p","u","s","-","2","0","2","4","0","2","2","9">>,
   flash |-> <<"g","e","m","i","n","i","-","1",".","5","-","f","l","a","s","h">>,
   pro15 |-> <<"g","e","m","i","n","i","-","1",".","5","-","p","r","o">>,
   pro |-> <<"g","e","m","i","n","i","-","p","r","o">>,
   constructor |-> <<"c","o","n","s","t","r","u","c","t","o","r">>,
   toString |-> <<"t","o","S","t","r","i","n","g">>,
   gpt4o_dated |-> <<"g","p","t","-","4","o","-","2","0","2","4","-","0","8","-","0","6">>,
   gpt4omini_dated |-> <<"g","p","t","-","4","o","-","m","i","n","i","-","2","0","2","4","-","0","7","-","1","8">>,
   gpt |-> <<"g","p","t">>,
   o1 |-> <<"o","1","-","p","r","e","v","i","e","w">>,
   sonnet45 |-> <<"c","l","a","u","d","e","-","s","o","n","n","e","t","-","4","-","5","-","2","0","2","5","0","9","2","9">>,
   pro15_latest |-> <<"g","e","m","i","n","i","-","1",".","5","-","p","r","o","-","l","a","t","e","s","t">>,
   flash25 |-> <<"g","e","m","i","n","i","-","2",".","5","-","f","l","a","s","h">>]

\* s.indexOf(sub) !== -1
Includes(s, sub) ==
  \E k \in 0..(Len(s) - Len(sub)) : SubSeq(s, k + 1, k + Len(sub)) = sub

\* PRICING: per provider the models in insertion order; prices are USD per
\* 1M tokens, here times 1000 so that 0.075 is the integer 75
PRICING ==
  [openai |-> << [key |-> ModelNames.gpt4omini, input |-> 150, output |-> 600],
                 [key |-> ModelNames.gpt4o, input |-> 2500, output |-> 10000],
                 [key |-> ModelNames.gpt4turbo, input |-> 10000, output |-> 30000],
                 [key |-> ModelNames.gpt35turbo, input |-> 500, output |-> 1500] >>,
   anthropic |-> << [key |-> ModelNames.haiku, input |-> 250, output |-> 1250],
                    [key |-> ModelNames.sonnet35, input |-> 3000, output |-> 15000],
                    [key |-> ModelNames.sonnet3, input |-> 3000, output |-> 15000],
                    [key |-> ModelNames.opus3, input |-> 15000, output |-> 75000] >>,
   gemini |-> << [key |-> ModelNames.flash, input |-> 75, output |-> 300],
                 [key |-> ModelNames.pro15, input |-> 1250, output |-> 5000],
                 [key |-> ModelNames.pro, input |-> 500, output |-> 1500] >>]

DEFAULT_PRICING == [input |-> 500, output |-> 1500]

Price(e) == [input |-> e.input, output |-> e.output]

\* names every JavaScript object inherits from Object.prototype (two of
\* them): PRICING[name] and PRICING[provider][name] are defined for these
\* although PRICING has no such entry
InheritedKeys == {ModelNames.constructor, ModelNames.toString}
InheritedNames == {"constructor", "toString"}

\* what a lookup of an inherited name gives: a function, which has neither
\* input nor output
InheritedProperty == [inherited |-> TRUE]

\* a number that may be NaN: <<n>> is the number n, <<>> is NaN
NaN == <<>>

\* getPricing(provider, model); an empty provider or model is falsy
getPricing(provider, model) ==
  IF provider = "" \/ provider \notin (DOMAIN PRICING \cup InheritedNames)
    THEN DEFAULT_PRICING
  ELSE IF model # <<>> /\ model \in InheritedKeys THEN InheritedProperty
  ELSE IF provider \in InheritedNames THEN DEFAULT_PRICING
  ELSE LET pp == PRICING[provider]
           exact == {k \in 1..Len(pp) : pp[k].key = model}
           partial == {k \in 1..Len(pp) :
                         Includes(model, pp[k].key) \/ Includes(pp[k].key, model)}
           first(S) == CHOOSE k \in S : \A j \in S : k <= j
       IN IF model # <<>> /\ exact # {} THEN Price(pp[first(exact)])
          ELSE IF model # <<>> /\ partial # {} THEN Price(pp[first(partial)])
          ELSE IF Len(pp) > 0 THEN Price(pp[1])
          ELSE DEFAULT_PRICING

\* calculateCost, in units of 10^-9 USD (tokens / 1M * price, price * 1000);
\* a number times undefined is NaN
calculateCost(provider, model, inputTokens, outputTokens) ==
  LET pricing == getPricing(provider, model)
  IN IF pricing = InheritedProperty THEN NaN
     ELSE <<inputTokens * pricing.input + outputTokens * pricing.output>>

createEmptyUsage ==
  [inputTokens |-> 0, outputTokens |-> 0, totalTokens |-> 0, estimatedCost |-> 0]

\* mutation of addUsage: a usage without totalTokens adds nothing to the total
addUsageNoFallback(total, usage) ==
  IF usage = Null THEN total
  ELSE [total EXCEPT
          !.inputTokens = @ + usage.inputTokens,
          !.outputTokens = @ + usage.outputTokens,
          !.totalTokens = @ + usage.totalTokens]

\* mutation of addUsage: the counters are assigned, not added to
addUsageAssigns(total, usage) ==
  IF usage = Null THEN total
  ELSE [total EXCEPT
          !.inputTokens = usage.inputTokens,
          !.outputTokens = usage.outputTokens,
          !.totalTokens = IF usage.totalTokens # 0 THEN usage.totalTokens
                          ELSE usage.inputTokens + usage.outputTokens]

\* addUsage(total, usage): usage.x || 0, and usage.totalTokens || (in + out)
addUsage(total, usage) ==
  IF usage = Null THEN total
  ELSE [total EXCEPT
          !.inputTokens = @ + usage.inputTokens,
          !.outputTokens = @ + usage.outputTokens,
          !.totalTokens = @ + (IF usage.totalTokens # 0 THEN usage.totalTokens
                               ELSE usage.inputTokens + usage.outputTokens)]

(***************************************************************************)
(* The retry utility (define(['./logger'], ...) in lib/anthropic.js)       *)
(***************************************************************************)
ErrorTypes ==
  [AUTH_ERROR |-> "auth_error", RATE_LIMIT |-> "rate_limit",
   NETWORK_ERROR |-> "network_error", SERVER_ERROR |-> "server_error",
   VALIDATION_ERROR |-> "validation_error", TIMEOUT_ERROR |-> "timeout_error",
   UNKNOWN_ERROR |-> "unknown_error"]

\* String.prototype.toLowerCase on the letters A-Z
UpperLetters == <<"A","B","C","D","E","F","G","H","I","J","K","L","M",
                  "N","O","P","Q","R","S","T","U","V","W","X","Y","Z">>
LowerLetters == <<"a","b","c","d","e","f","g","h","i","j","k","l","m",
                  "n","o","p","q","r","s","t","u","v","w","x","y","z">>
toLowerCase(s) ==
  [k \in 1..Len(s) |->
     IF \E j \in 1..26 : UpperLetters[j] = s[k]
     THEN LowerLetters[CHOOSE j \in 1..26 : UpperLetters[j] = s[k]]
     ELSE s[k]]

\* the words classifyError looks for in the lower-cased message
Words ==
  [timeout |-> <<"t","i","m","e","o","u","t">>,
   timed_out |-> <<"t","i","m","e","d"," ","o","u","t">>,
   network |-> <<"n","e","t","w","o","r","k">>,
   fetch |-> <<"f","e","t","c","h">>,
   connection |-> <<"c","o","n","n","e","c","t","i","o","n">>,
   api_key |-> <<"a","p","i"," ","k","e","y">>,
   unauthorized |-> <<"u","n","a","u","t","h","o","r","i","z","e","d">>,
   authentication |-> <<"a","u","t","h","e","n","t","i","c","a","t","i","o","n">>,
   rate |-> <<"r","a","t","e">>,
   limit |-> <<"l","i","m","i","t">>,
   quota |-> <<"q","u","o","t","a">>]

\* mutation of classifyError: the error text is tested before the status
classifyErrorTextFirst(error, response) ==
  LET status == IF response # Null THEN response.status ELSE 0
      message == toLowerCase(error.message)
  IN IF Includes(message, Words.timeout) \/ Includes(message, Words.timed_out)
       THEN ErrorTypes.TIMEOUT_ERROR
     ELSE IF Includes(message, Words.network) \/ Includes(message, Words.fetch)
             \/ Includes(message, Words.connection)
       THEN ErrorTypes.NETWORK_ERROR
     ELSE IF Includes(message, Words.api_key) \/ Includes(message, Words.unauthorized)
             \/ Includes(message, Words.authentication)
       THEN ErrorTypes.AUTH_ERROR
     ELSE IF Includes(message, Words.rate) \/ Includes(message, Words.limit)
             \/ Includes(message, Words.quota)
       THEN ErrorTypes.RATE_LIMIT
     ELSE IF response # Null /\ (status = 401 \/ status = 403) THEN ErrorTypes.AUTH_ERROR
     ELSE IF response # Null /\ status = 429 THEN ErrorTypes.RATE_LIMIT
     ELSE IF response # Null /\ status = 400 THEN ErrorTypes.VALIDATION_ERROR
     ELSE IF response # Null /\ status >= 500 /\ status < 600 THEN ErrorTypes.SERVER_ERROR
     ELSE ErrorTypes.UNKNOWN_ERROR

\* mutation of classifyError: the network words are tested before the
\* timeout words
classifyErrorNetworkFirst(error, response) ==
  LET status == IF response # Null THEN response.status ELSE 0
      message == toLowerCase(error.message)
  IN IF response # Null /\ (status = 401 \/ status = 403) THEN ErrorTypes.AUTH_ERROR
     ELSE IF response # Null /\ status = 429 THEN ErrorTypes.RATE_LIMIT
     ELSE IF response # Null /\ status = 400 THEN ErrorTypes.VALIDATION_ERROR
     ELSE IF response # Null /\ status >= 500 /\ status < 600 THEN ErrorTypes.SERVER_ERROR
     ELSE IF Includes(message, Words.network) \/ Includes(message, Words.fetch)
             \/ Includes(message, Words.connection)
       THEN ErrorTypes.NETWORK_ERROR
     ELSE IF Includes(message, Words.timeout) \/ Includes(message, Words.timed_out)
       THEN ErrorTypes.TIMEOUT_ERROR
     ELSE IF Includes(message, Words.api_key) \/ Includes(message, Words.unauthorized)
             \/ Includes(message, Words.authentication)
       THEN ErrorTypes.AUTH_ERROR
     ELSE IF Includes(message, Words.rate) \/ Includes(message, Words.limit)
             \/ Includes(message, Words.quota)
       THEN ErrorTypes.RATE_LIMIT
     ELSE ErrorTypes.UNKNOWN_ERROR

\* classifyError(error, response): response is Null when the error has none
classifyError(error, response) ==
  LET status == IF response # Null THEN response.status ELSE 0
      message == toLowerCase(error.message)
  IN IF response # Null /\ (status = 401 \/ status = 403) THEN ErrorTypes.AUTH_ERROR
     ELSE IF response # Null /\ status = 429 THEN ErrorTypes.RATE_LIMIT
     ELSE IF response # Null /\ status = 400 THEN ErrorTypes.VALIDATION_ERROR
     ELSE IF response # Null /\ status >= 500 /\ status < 600 THEN ErrorTypes.SERVER_ERROR
     ELSE IF Includes(message, Words.timeout) \/ Includes(message, Words.timed_out)
       THEN ErrorTypes.TIMEOUT_ERROR
     ELSE IF Includes(message, Words.network) \/ Includes(message, Words.fetch)
             \/ Includes(message, Words.connection)
       THEN ErrorTypes.NETWORK_ERROR
     ELSE IF Includes(message, Words.api_key) \/ Includes(message, Words.unauthorized)
             \/ Includes(message, Words.authentication)
       THEN ErrorTypes.AUTH_ERROR
     ELSE IF Includes(message, Words.rate) \/ Includes(message, Words.limit)
             \/ Includes(message, Words.quota)
       THEN ErrorTypes.RATE_LIMIT
     ELSE ErrorTypes.UNKNOWN_ERROR

\* mutation of isRetryable: every error type is retried
isRetryableAlways(errorType) == TRUE

\* mutation of isRetryable: the timeout type is missing from the list
isRetryableNoTimeout(errorType) ==
  LET retryableTypes == <<ErrorTypes.RATE_LIMIT, ErrorTypes.NETWORK_ERROR,
                          ErrorTypes.SERVER_ERROR>>
  IN \E k \in 1..Len(retryableTypes) : retryableTypes[k] = errorType

isRetryable(errorType) ==
  LET retryableTypes == <<ErrorTypes.RATE_LIMIT, ErrorTypes.NETWORK_ERROR,
                          ErrorTypes.SERVER_ERROR, ErrorTypes.TIMEOUT_ERROR>>
  IN \E k \in 1..Len(retryableTypes) : retryableTypes[k] = errorType

RECURSIVE Pow2(_)
Pow2(n) == IF n <= 0 THEN 1 ELSE 2 * Pow2(n - 1)

\* mutation of getRetryDelay: the delay is not capped
getRetryDelayUncapped(attempt, baseDelay, maxDelay, random) ==
  LET exponentialDelay == baseDelay * Pow2(attempt)
      jitter == (exponentialDelay * random * 3) \div 100
  IN exponentialDelay + jitter

\* getRetryDelay(attempt, baseDelay, maxDelay); random is Math.random() in
\* tenths, so the jitter is exponentialDelay * (random / 10) * 0.3
getRetryDelay(attempt, baseDelay, maxDelay, random) ==
  LET exponentialDelay == baseDelay * Pow2(attempt)
      jitter == (exponentialDelay * random * 3) \div 100
      totalDelay == exponentialDelay + jitter
  IN Min(totalDelay, maxDelay)

\* an optional number: <<>> is null / NaN, <<n>> is the number n
NoNumber == <<>>
Digits == <<"0","1","2","3","4","5","6","7","8","9">>
IsDigit(c) == \E d \in 1..10 : Digits[d] = c
DigitValue(c) == (CHOOSE d \in 1..10 : Digits[d] = c) - 1

RECURSIVE ParseDigits(_, _, _)
ParseDigits(s, k, acc) ==
  IF k > Len(s) \/ ~IsDigit(s[k]) THEN acc
  ELSE ParseDigits(s, k + 1, 10 * acc + DigitValue(s[k]))

\* parseInt(s, 10): optional sign, then the leading digits; NaN without digits
parseInt(s) ==
  LET signed == Len(s) > 0 /\ s[1] \in {"-", "+"}
      from == IF signed THEN 2 ELSE 1
  IN IF from > Len(s) \/ ~IsDigit(s[from]) THEN NoNumber
     ELSE IF signed /\ s[1] = "-" THEN << 0 - ParseDigits(s, from, 0) >>
     ELSE << ParseDigits(s, from, 0) >>

\* parseRetryAfter(response) at time now (Date.now()).  A header is its text
\* and the time new Date(text).getTime() gives for it (<<>> for Invalid Date);
\* a response without the header has retryAfter = Null
parseRetryAfter(response, now) ==
  LET retryAfter == response.retryAfter
  IN IF retryAfter = Null \/ retryAfter.text = <<>> THEN NoNumber
     ELSE LET seconds == parseInt(retryAfter.text)
          IN IF seconds # NoNumber THEN << seconds[1] * 1000 >>
             ELSE IF retryAfter.date # NoNumber
               THEN << Max(0, retryAfter.date[1] - now) >>
             ELSE NoNumber

\* the delay withRetry computes after a retryable failure (lines 322-329);
\* a || b takes b when a is null or 0
RetryDelay(errorType, lastResponse, attempt, baseDelay, maxDelay, random, now) ==
  IF errorType = ErrorTypes.RATE_LIMIT /\ lastResponse # Null
  THEN LET hint == parseRetryAfter(lastResponse, now)
       IN IF hint # NoNumber /\ hint[1] # 0 THEN hint[1]
          ELSE getRetryDelay(attempt, baseDelay * 2, maxDelay, random)
  ELSE getRetryDelay(attempt, baseDelay, maxDelay, random)

(***************************************************************************)
(* State                                                                   *)
(***************************************************************************)
VARIABLES
  cancelToken,      \* Qlik2Review.js: var cancelToken = { cancelled: false }
  state,            \* Qlik2Review.js: var state (the fields a run touches)
  qPc,              \* where Qlik2Review.js analyzeSheet is suspended
  aPc,              \* where analyzer.analyzeSheet is suspended
  filteredObjects,  \* analyzer: the objects to analyze, in input order
  batchStart,       \* analyzer: first index of the current window
  batchPromises,    \* analyzer: the window's promises, Pending or resolved
  objectSummaries,  \* analyzer: array of outcomes written by index
  completedCount,   \* analyzer: outcomes processed so far
  totalUsage,       \* analyzer: running UsageCounters
  thrown,           \* message of the error analyzer.analyzeSheet threw, if any
  workerCalls,      \* per index: times analyzeObject was invoked for it
  workerOut,        \* per index: what analyzeObject did (Null until it settles)
  writes,           \* per index: times objectSummaries[index] was assigned
  windowsRun,       \* number of windows launched
  cancelAt,         \* aPc when cancellation was first requested ("none" before)
  cancelSeen,       \* batchStart of the window in flight at that moment, or -1
  before,           \* the stored results when the run started
  progressLog,      \* the messages passed to onProgress, in order
  rPc,              \* where withRetry is suspended
  options,          \* withRetry: maxRetries, baseDelay, maxDelay in effect
  attempt,          \* withRetry: the loop variable
  lastError,        \* withRetry: var lastError
  lastResponse,     \* withRetry: var lastResponse
  delay,            \* withRetry: var delay
  settled,          \* how withRetry's promise settled
  events,           \* the calls of fn and the sleeps of withRetry, in order
  usageLog,         \* analyzer: the writes to totalUsage, in order
  firstError,       \* the error of the first failed attempt (Undefined before)
  drawn,            \* the last value Math.random() returned, in tenths (-1 before)
  timer,            \* fetchWithRetry: the attempt's timeoutId: "none", "armed",
                    \*   "fired" (the callback ran) or "cleared" (clearTimeout)
  aborted,          \* fetchWithRetry: controller.signal.aborted of the attempt
  pFn,              \* the function applied on its own: its name
  pIn,              \*   its arguments
  pOut,             \*   its result
  pDone,            \*   whether it has returned
  runs,             \* the invocations of Qlik2Review.js analyzeSheet that share
                    \*   state and cancelToken: where each is suspended
  autoAnalyzeTimer  \* state.autoAnalyzeTimer: whether the timer is pending

batchVars == <<cancelToken, state, qPc, aPc, filteredObjects, batchStart,
               batchPromises, objectSummaries, completedCount, totalUsage,
               thrown, workerCalls, workerOut, writes, windowsRun, cancelAt,
               cancelSeen, before, progressLog, usageLog>>

retryVars == <<rPc, options, attempt, lastError, lastResponse, delay, settled, events,
               firstError, drawn, timer, aborted>>

pureVars == <<pFn, pIn, pOut, pDone>>

runVars == <<runs, autoAnalyzeTimer>>

vars == <<batchVars, retryVars, pureVars, runVars>>

analyzerVars == <<filteredObjects, batchStart, batchPromises, objectSummaries,
                  completedCount, totalUsage, workerCalls, workerOut, writes,
                  windowsRun>>

(***************************************************************************)
(* Inputs                                                                  *)
(***************************************************************************)
\* the objects of the sheet: distinct ids, with title and type
ObjIds == <<"obj0", "obj1", "obj2", "obj3", "obj4", "obj5", "obj6", "obj7">>
ObjTypes == <<"kpi", "barchart", "table", "linechart", "kpi", "piechart", "table", "combochart">>
ObjTitles == <<"Sales", "By region", "Orders", "Trend", "Margin", "Share", "Details", "Mix">>

\* the object at (0-based) position i of the sheet
SheetObject(i) == [id |-> ObjIds[i + 1], title |-> ObjTitles[i + 1], type |-> ObjTypes[i + 1]]

\* usage reported by a provider call: {inputTokens, outputTokens, totalTokens}
UsageDeltas == <<[inputTokens |-> 10, outputTokens |-> 5, totalTokens |-> 15],
                 [inputTokens |-> 3, outputTokens |-> 2, totalTokens |-> 5]>>

\* the usage the provider reports for the prompt of object obj
UsageFor(obj) == IF obj.type = "kpi" THEN UsageDeltas[2] ELSE UsageDeltas[1]

\* messages of errors thrown by analyzeObject (provider errors)
WorkerErrors == {"Invalid request: prompt too long", "HTTP 503: Service Unavailable"}

\* what analyzeObject can do for the object obj: return {text, usage}
\* (usage is null when the provider reports none) or throw an error
WorkerOutcomes(obj) ==
  {[ok |-> TRUE, text |-> <<"summary of", obj.id>>, usage |-> u, message |-> NullString] :
     u \in {UsageFor(obj), Null}}
  \cup {[ok |-> FALSE, text |-> <<>>, usage |-> Null, message |-> m] : m \in WorkerErrors}

\* what generateSheetSummary can do
SheetOutcomes ==
  {[ok |-> TRUE, text |-> "sheet summary", usage |-> u, message |-> NullString] :
     u \in {Null, UsageDeltas[2]}}
  \cup {[ok |-> FALSE, text |-> NullString, usage |-> Null,
         message |-> "HTTP 500: Internal Server Error"]}

\* the configuration of the run (layout.aiSettings)
config == [provider |-> "openai", model |-> ModelNames.gpt4o]

\* analyzer.js: the provider registry
providers == {"openai", "anthropic", "gemini"}

\* results stored by an earlier run, or none
StoredResults ==
  {[sheetSummary |-> NullString, objectSummaries |-> <<>>, usage |-> Null],
   [sheetSummary |-> "earlier sheet summary",
    objectSummaries |-> << [id |-> "obj0", title |-> "Sales", type |-> "kpi",
                            summary |-> "earlier summary", error |-> FALSE] >>,
    usage |-> [inputTokens |-> 7, outputTokens |-> 1, totalTokens |-> 8,
               estimatedCost |-> 27500]]}

Results(st) == [sheetSummary |-> st.sheetSummary,
                objectSummaries |-> st.objectSummaries,
                usage |-> st.usage]

(***************************************************************************)
(* analyzer.js helpers                                                     *)
(***************************************************************************)
\* mutation of analyzeWithErrorHandling: the failed outcome loses the message
analyzeWithErrorHandlingNoMessage(obj, index, r) ==
  [index |-> index,
   data |-> [id |-> obj.id, title |-> obj.title, type |-> obj.type,
             summary |-> IF r.ok THEN r.text ELSE <<"Analysis failed: ", NullString>>,
             error |-> ~r.ok, usage |-> r.usage]]

\* analyzeWithErrorHandling(obj, index): the promise's value once
\* analyzeObject has returned r or thrown r
analyzeWithErrorHandling(obj, index, r) ==
  IF r.ok
  THEN [index |-> index,
        data |-> [id |-> obj.id, title |-> obj.title, type |-> obj.type,
                  summary |-> r.text, error |-> FALSE, usage |-> r.usage]]
  ELSE [index |-> index,
        data |-> [id |-> obj.id, title |-> obj.title, type |-> obj.type,
                  summary |-> <<"Analysis failed: ", r.message>>,
                  error |-> TRUE, usage |-> Null]]

\* delete result.data.usage
DeleteUsage(d) == [id |-> d.id, title |-> d.title, type |-> d.type,
                   summary |-> d.summary, error |-> d.error]

\* arr[index] = value on a JavaScript array: holes up to index are undefined
ArrayAssign(arr, index, value) ==
  [k \in 1..Max(Len(arr), index + 1) |->
     IF k = index + 1 THEN value
     ELSE IF k <= Len(arr) THEN arr[k] ELSE Undefined]

\* arr.filter(function(s) { return s; })
FilterDefined(arr) == SelectSeq(arr, LAMBDA s : s # Undefined)

\* an entry of usageLog: who wrote totalUsage, for which outcome (-1 for the
\* sheet summary), and on which path of analyzeSheet
UsageWrite(by, index, at) == [by |-> by, index |-> index, at |-> at]

\* mutation of AggregateUsage: addUsage is called for every outcome
AggregateUsageAlways(acc, result) ==
  [usage |-> addUsage(acc.usage, result.data.usage),
   log |-> acc.log \o <<UsageWrite("addUsage", result.index, "window")>>]

\* if (result.data.usage) { tokenTracker.addUsage(totalUsage, result.data.usage); }
AggregateUsage(acc, result) ==
  IF result.data.usage # Null
  THEN [usage |-> addUsage(acc.usage, result.data.usage),
        log |-> acc.log \o <<UsageWrite("addUsage", result.index, "window")>>]
  ELSE [usage |-> acc.usage, log |-> acc.log]

\* batchResults.forEach(...) from position k on: aggregate the usage, delete
\* it from the outcome, store the outcome at its index, count it
RECURSIVE ProcessResults(_, _, _)
ProcessResults(acc, batchResults, k) ==
  IF k > Len(batchResults) THEN acc
  ELSE LET result == batchResults[k]
           aggregated == AggregateUsage(acc, result)
       IN ProcessResults(
            [usage |-> aggregated.usage,
             log |-> aggregated.log,
             summaries |-> ArrayAssign(acc.summaries, result.index,
                                       DeleteUsage(result.data)),
             count |-> acc.count + 1,
             writes |-> [acc.writes EXCEPT ![result.index] = @ + 1]],
            batchResults, k + 1)

(***************************************************************************)
(* The batch: Qlik2Review.js analyzeSheet calling analyzer.analyzeSheet     *)
(***************************************************************************)
N == Len(filteredObjects)

\* mutation of BatchEnd: the window is the whole rest of the list
BatchEndRest(bs) == N

\* mutation of BatchEnd: the window is one object too long
BatchEndOneMore(bs) == Min(bs + BATCH_SIZE + 1, N)

\* var batchEnd = Math.min(batchStart + BATCH_SIZE, filteredObjects.length)
BatchEnd(bs) == Min(bs + BATCH_SIZE, N)

\* mutation of NextBatchStart: the next window starts on the last object of
\* this one
NextBatchStartOverlapping(bs) == bs + BATCH_SIZE - 1

\* batchStart += BATCH_SIZE
NextBatchStart(bs) == bs + BATCH_SIZE

\* mutation of GlobalIndex: the index within the window
GlobalIndexInBatch(bs, batchIndex) == batchIndex

\* var globalIndex = batchStart + batchIndex
GlobalIndex(bs, batchIndex) == bs + batchIndex

\* mutations of the cancellation checks: the check is missing
CancelledBeforeLoopMissing == FALSE
CancelledBeforeWindowMissing == FALSE

\* the cancellation checks: analyzer.js lines 104 and 128 (before the loop),
\* 192 (before each window), 235 (after the loop), Qlik2Review.js line 2719
CancelledBeforeLoop == cancelToken.cancelled
CancelledBeforeWindow == cancelToken.cancelled
CancelledAfterLoop == cancelToken.cancelled
CancelledAfterAnalyzer == cancelToken.cancelled

\* the positions of batchPromises whose worker is in flight
InFlight == {k \in DOMAIN batchPromises : batchPromises[k].result = Pending}

\* mutation of PromiseAllResolved: the await never resumes
PromiseAllResolvedNever == FALSE

\* await Promise.all(batchPromises) resumes once every promise has resolved
PromiseAllResolved == InFlight = {}

\* withRetry has not been called
RetryIdle ==
  /\ rPc = "idle"
  /\ options = [maxRetries |-> 0, baseDelay |-> 0, maxDelay |-> 0, timeout |-> 0]
  /\ attempt = 0
  /\ lastError = Undefined
  /\ lastResponse = Undefined
  /\ delay = 0
  /\ settled = [kind |-> "pending", value |-> Undefined, error |-> Undefined]
  /\ events = <<>>
  /\ firstError = Undefined
  /\ drawn = -1
  /\ timer = <<>>
  /\ aborted = <<>>

\* no run of several has been started
RunsIdle ==
  /\ runs = <<>>
  /\ autoAnalyzeTimer = FALSE

\* no function is applied on its own
PureIdle ==
  /\ pFn = "none"
  /\ pIn = <<>>
  /\ pOut = <<>>
  /\ pDone = FALSE

Init ==
  /\ RetryIdle
  /\ PureIdle
  /\ RunsIdle
  /\ usageLog = <<>>
  /\ cancelToken \in [cancelled : BOOLEAN]
  /\ \E r \in StoredResults :
       /\ state = [isAnalyzing |-> FALSE, error |-> NullString, progress |-> Progress(""),
                   sheetSummary |-> r.sheetSummary,
                   objectSummaries |-> r.objectSummaries, usage |-> r.usage]
       /\ before = r
  /\ qPc = "idle"
  /\ aPc = "idle"
  /\ filteredObjects = <<>>
  /\ batchStart = 0
  /\ batchPromises = <<>>
  /\ objectSummaries = <<>>
  /\ completedCount = 0
  /\ totalUsage = createEmptyUsage
  /\ thrown = NullString
  /\ workerCalls = <<>>
  /\ workerOut = <<>>
  /\ writes = <<>>
  /\ windowsRun = 0
  /\ cancelAt = "none"
  /\ cancelSeen = -1
  /\ progressLog = <<>>

\* mutation of CallerCatch: the outcomes produced so far are kept
CallerCatchKeepsPartial(message) ==
  /\ state' = [state EXCEPT !.error = message, !.progress = Progress(""),
                            !.isAnalyzing = FALSE,
                            !.objectSummaries = objectSummaries]
  /\ qPc' = "done"

\* Qlik2Review.js analyzeSheet: catch (err) { state.error = ...;
\* state.progress = '' } finally { state.isAnalyzing = false }
CallerCatch(message) ==
  /\ state' = [state EXCEPT !.error = message, !.progress = Progress(""),
                            !.isAnalyzing = FALSE]
  /\ qPc' = "done"

\* analyzer.analyzeSheet throws: the caller's await rejects
Raise(message) ==
  /\ aPc' = "raised"
  /\ thrown' = message
  /\ CallerCatch(message)

\* analyzer.analyzeSheet returns result: the caller checks the token and
\* stores the result (Qlik2Review.js lines 2719-2728)
CallerStore(result) ==
  /\ aPc' = "returned"
  /\ thrown' = NullString
  /\ IF CancelledAfterAnalyzer
     THEN CallerCatch(AnalysisCancelled)
     ELSE /\ state' = [state EXCEPT !.sheetSummary = result.sheetSummary,
                                    !.objectSummaries = result.objectSummaries,
                                    !.usage = result.usage,
                                    !.progress = Progress("")]
          /\ qPc' = "post"

\* batch.map(...): the promises of the window bs..batchEnd-1, each worker
\* called with its object and its global index
LaunchBatch(bs, batchEnd) ==
  [k \in 1..(batchEnd - bs) |->
     [item |-> bs + k - 1, obj |-> filteredObjects[bs + k],
      index |-> GlobalIndex(bs, k - 1), result |-> Pending]]

\* the head of the window loop at batchStart = bs, and what follows the loop;
\* summaries is objectSummaries as the preceding code left it, said the
\* onProgress messages of this stretch of code so far
LoopHead(bs, summaries, said) ==
  /\ batchStart' = bs
  /\ IF bs < N
     THEN IF CancelledBeforeWindow
          THEN /\ Raise(AnalysisCancelled)
               /\ objectSummaries' = summaries
               /\ progressLog' = progressLog \o said
               /\ UNCHANGED <<batchPromises, workerCalls, windowsRun>>
          ELSE LET batchEnd == BatchEnd(bs)
                   progressMsg == ProgressOf("Analyzing", bs + 1, batchEnd, N)
               IN /\ batchPromises' = LaunchBatch(bs, batchEnd)
                  /\ workerCalls' = [i \in DOMAIN workerCalls |->
                                       IF i \in bs..(batchEnd - 1)
                                       THEN workerCalls[i] + 1
                                       ELSE workerCalls[i]]
                  /\ windowsRun' = windowsRun + 1
                  /\ objectSummaries' = summaries
                  /\ progressLog' = progressLog \o said \o <<progressMsg>>
                  /\ state' = [state EXCEPT !.progress = progressMsg]
                  /\ aPc' = "window"
                  /\ UNCHANGED <<qPc, thrown>>
     ELSE /\ objectSummaries' = FilterDefined(summaries)
          /\ UNCHANGED <<batchPromises, workerCalls, windowsRun>>
          /\ IF CancelledAfterLoop
             THEN /\ Raise(AnalysisCancelled)
                  /\ progressLog' = progressLog \o said
             ELSE /\ state' = [state EXCEPT !.progress = Progress("Generating sheet summary...")]
                  /\ progressLog' = progressLog \o said
                                      \o <<Progress("Generating sheet summary...")>>
                  /\ aPc' = "sheetSummary"
                  /\ UNCHANGED <<qPc, thrown>>

\* Qlik2Review.js analyzeSheet, from the click (or the auto-analyze timer) to
\* the first await of analyzer.analyzeSheet (engineService.getSheetObjects)
AnalyzeSheet(hasApiKey) ==
  /\ UNCHANGED <<retryVars, pureVars, usageLog, runVars>>
  /\ qPc = "idle"
  /\ ~state.isAnalyzing
  /\ cancelToken' = [cancelled |-> FALSE]
  /\ IF ~hasApiKey
     THEN /\ CallerCatch("API key is required. Please configure in extension properties.")
          /\ UNCHANGED <<aPc, progressLog>>
     ELSE /\ state' = [state EXCEPT !.isAnalyzing = TRUE, !.error = NullString,
                                    !.progress = Progress("Fetching sheet objects...")]
          /\ progressLog' = progressLog \o <<Progress("Fetching sheet objects...")>>
          /\ qPc' = "analyzer"
          /\ aPc' = "getSheetObjects"
  /\ UNCHANGED <<analyzerVars, thrown, cancelAt, cancelSeen, before>>

\* engineService.getSheetObjects resolved and objectFilter.filterObjects
\* left n objects
GetSheetObjectsResolve(n) ==
  /\ UNCHANGED <<retryVars, pureVars, usageLog, runVars>>
  /\ aPc = "getSheetObjects"
  /\ UNCHANGED <<cancelToken, cancelAt, cancelSeen, before, batchStart, batchPromises,
                 objectSummaries, completedCount, totalUsage, windowsRun>>
  /\ IF CancelledBeforeLoop
     THEN /\ Raise(AnalysisCancelled)
          /\ UNCHANGED <<filteredObjects, workerCalls, workerOut, writes, progressLog>>
     ELSE /\ filteredObjects' = [k \in 1..n |-> SheetObject(k - 1)]
          /\ workerCalls' = [i \in 0..(n - 1) |-> 0]
          /\ workerOut' = [i \in 0..(n - 1) |-> Null]
          /\ writes' = [i \in 0..(n - 1) |-> 0]
          /\ IF n = 0
             THEN /\ CallerStore([sheetSummary |-> "No analyzable objects found on this sheet.",
                                  objectSummaries |-> <<>>, usage |-> Null])
                  /\ UNCHANGED progressLog
             ELSE /\ state' = [state EXCEPT !.progress = Progress("Getting current selections...")]
                  /\ progressLog' = progressLog \o <<Progress("Getting current selections...")>>
                  /\ aPc' = "getCurrentSelections"
                  /\ UNCHANGED <<qPc, thrown>>

\* an engine call of analyzer.analyzeSheet rejected
EngineReject ==
  /\ UNCHANGED <<retryVars, pureVars, usageLog, runVars>>
  /\ aPc \in {"getSheetObjects", "getCurrentSelections"}
  /\ Raise("Engine error")
  /\ UNCHANGED <<cancelToken, analyzerVars, cancelAt, cancelSeen, before, progressLog>>

\* engineService.getCurrentSelections resolved: the checks before the loop,
\* then the first window
GetCurrentSelectionsResolve ==
  /\ UNCHANGED <<retryVars, pureVars, usageLog, runVars>>
  /\ aPc = "getCurrentSelections"
  /\ UNCHANGED <<cancelToken, cancelAt, cancelSeen, before, filteredObjects, workerOut, writes>>
  /\ IF CancelledBeforeLoop
     THEN /\ Raise(AnalysisCancelled)
          /\ UNCHANGED <<batchStart, batchPromises, objectSummaries, completedCount,
                         totalUsage, workerCalls, windowsRun, progressLog>>
     ELSE IF config.provider \notin providers
     THEN /\ Raise("Unknown AI provider")
          /\ UNCHANGED <<batchStart, batchPromises, objectSummaries, completedCount,
                         totalUsage, workerCalls, windowsRun, progressLog>>
     ELSE /\ totalUsage' = createEmptyUsage
          /\ completedCount' = 0
          /\ LoopHead(0, <<>>, <<>>)

\* the worker at position k of the window settles: analyzeObject returned or
\* threw r, and analyzeWithErrorHandling resolves its promise either way
WorkerSettle(k, r) ==
  /\ UNCHANGED <<retryVars, pureVars, usageLog, runVars>>
  /\ aPc = "window"
  /\ k \in InFlight
  /\ r \in WorkerOutcomes(batchPromises[k].obj)
  /\ batchPromises' = [batchPromises EXCEPT
                         ![k].result = analyzeWithErrorHandling(batchPromises[k].obj,
                                                                batchPromises[k].index, r)]
  /\ workerOut' = [workerOut EXCEPT ![batchPromises[k].item] = r]
  /\ UNCHANGED <<cancelToken, state, qPc, aPc, filteredObjects, batchStart,
                 objectSummaries, completedCount, totalUsage, thrown, workerCalls,
                 writes, windowsRun, cancelAt, cancelSeen, before, progressLog>>

\* mutation of OnProgressCompleted: the observer is not told
OnProgressCompletedMissing(count, n) == <<>>

\* onProgress('Completed ' + completedCount + '/' + filteredObjects.length
\* + ' objects'): the messages the observer receives
OnProgressCompleted(count, n) == <<ProgressOf("Completed", count, 0, n)>>

\* Promise.all(batchPromises) resolved: process the window's results, report
\* progress, and go round the loop
WindowResolved ==
  /\ UNCHANGED <<retryVars, pureVars, runVars>>
  /\ aPc = "window"
  /\ PromiseAllResolved
  /\ LET batchResults == [k \in DOMAIN batchPromises |-> batchPromises[k].result]
         done == ProcessResults([usage |-> totalUsage, log |-> usageLog,
                                 summaries |-> objectSummaries,
                                 count |-> completedCount, writes |-> writes],
                                batchResults, 1)
     IN /\ totalUsage' = done.usage
        /\ usageLog' = done.log
        /\ completedCount' = done.count
        /\ writes' = done.writes
        /\ LoopHead(NextBatchStart(batchStart), done.summaries,
                    OnProgressCompleted(done.count, N))
  /\ UNCHANGED <<cancelToken, filteredObjects, workerOut, cancelAt, cancelSeen, before>>

\* generateSheetSummary settled: aggregate its usage, estimate the cost and
\* return to the caller, or let its error out
SheetSummarySettle(r) ==
  /\ UNCHANGED <<retryVars, pureVars, runVars>>
  /\ aPc = "sheetSummary"
  /\ UNCHANGED <<cancelToken, filteredObjects, batchStart, batchPromises,
                 objectSummaries, completedCount, workerCalls, workerOut, writes,
                 windowsRun, cancelAt, cancelSeen, before, progressLog>>
  /\ IF r.ok
     THEN LET added == IF r.usage # Null THEN addUsage(totalUsage, r.usage) ELSE totalUsage
              total == [added EXCEPT !.estimatedCost =
                          calculateCost(config.provider, config.model,
                                        added.inputTokens, added.outputTokens)[1]]
          IN /\ totalUsage' = total
             /\ usageLog' = usageLog
                   \o (IF r.usage # Null
                       THEN <<UsageWrite("addUsage", -1, "sheetSummary")>> ELSE <<>>)
                   \o <<UsageWrite("analyzeSheet", -1, "estimatedCost")>>
             /\ CallerStore([sheetSummary |-> r.text,
                             objectSummaries |-> objectSummaries,
                             usage |-> total])
     ELSE /\ Raise(r.message)
          /\ UNCHANGED <<totalUsage, usageLog>>

\* the rest of Qlik2Review.js analyzeSheet after the results are stored
\* (alerts, footnotes, badges, suggestions, storage), then finally
CallerFinish(ok) ==
  /\ UNCHANGED <<retryVars, pureVars, usageLog, runVars>>
  /\ qPc = "post"
  /\ qPc' = "done"
  /\ state' = [state EXCEPT !.isAnalyzing = FALSE,
                            !.error = IF ok THEN @ ELSE "Engine error",
                            !.progress = Progress("")]
  /\ UNCHANGED <<cancelToken, aPc, analyzerVars, thrown, cancelAt, cancelSeen, before,
                 progressLog>>

\* where the run was when cancellation was first requested
NoteCancel ==
  IF ~cancelToken.cancelled /\ cancelAt = "none"
  THEN /\ cancelAt' = aPc
       /\ cancelSeen' = IF aPc = "window" THEN batchStart ELSE cancelSeen
  ELSE UNCHANGED <<cancelAt, cancelSeen>>

\* Qlik2Review.js cancelAnalysis: the Cancel button, shown while isAnalyzing
CancelAnalysis ==
  /\ UNCHANGED <<retryVars, pureVars, usageLog, runVars>>
  /\ state.isAnalyzing
  /\ cancelToken' = [cancelled |-> TRUE]
  /\ state' = [state EXCEPT !.isAnalyzing = FALSE, !.progress = Progress("Cancelled"),
                            !.error = "Analysis cancelled by user"]
  /\ NoteCancel
  /\ UNCHANGED <<qPc, aPc, analyzerVars, thrown, before, progressLog>>

\* Qlik2Review.js destroy: the extension is removed from the sheet
Destroy ==
  /\ UNCHANGED <<retryVars, pureVars, usageLog, runVars>>
  /\ ~cancelToken.cancelled
  /\ cancelToken' = [cancelled |-> TRUE]
  /\ NoteCancel
  /\ UNCHANGED <<state, qPc, aPc, analyzerVars, thrown, before, progressLog>>

Next ==
  \/ \E hasApiKey \in BOOLEAN : AnalyzeSheet(hasApiKey)
  \/ \E n \in 0..MaxItems : GetSheetObjectsResolve(n)
  \/ EngineReject
  \/ GetCurrentSelectionsResolve
  \/ \E k \in DOMAIN batchPromises :
       \E r \in WorkerOutcomes(batchPromises[k].obj) : WorkerSettle(k, r)
  \/ WindowResolved
  \/ \E r \in SheetOutcomes : SheetSummarySettle(r)
  \/ \E ok \in BOOLEAN : CallerFinish(ok)
  \/ CancelAnalysis
  \/ Destroy

Spec == Init /\ [][Next]_vars

(***************************************************************************)
(* withRetry(fn, options)                                                  *)
(***************************************************************************)
\* largest maxRetries option tried
MaxRetriesOption == 3

\* Date.now() when a retry-after header is parsed
Now == 100000

\* Math.random(), in tenths
Randoms == {0, 5, 9}

\* the options of a call: <<>> is an option left undefined
RetryOptions ==
  [maxRetries : {<<>>} \cup {<<n>> : n \in 0..MaxRetriesOption},
   baseDelay : {<<>>, <<500>>},
   maxDelay : {<<>>, <<2500>>},
   timeout : {<<>>, <<500>>}]

\* messages of the errors fn throws, the pieces of the timeout message and
\* of the texts given to classifyError, and the text of a retry-after date
Messages ==
  [http401 |-> <<"H","T","T","P"," ","4","0","1",":"," ","U","n","a","u","t","h","o","r","i","z","e","d">>,
   http429 |-> <<"H","T","T","P"," ","4","2","9",":"," ","T","o","o"," ","M","a","n","y"," ","R","e","q","u","e","s","t","s">>,
   http400 |-> <<"H","T","T","P"," ","4","0","0",":"," ","B","a","d"," ","R","e","q","u","e","s","t">>,
   http503 |-> <<"H","T","T","P"," ","5","0","3",":"," ","S","e","r","v","i","c","e"," ","U","n","a","v","a","i","l","a","b","l","e">>,
   http404 |-> <<"H","T","T","P"," ","4","0","4",":"," ","N","o","t"," ","F","o","u","n","d">>,
   fetch |-> <<"F","a","i","l","e","d"," ","t","o"," ","f","e","t","c","h">>,
   timed_out |-> <<"R","e","q","u","e","s","t"," ","t","i","m","e","d"," ","o","u","t"," ","a","f","t","e","r"," ","3","0"," ","s","e","c","o","n","d","s">>,
   token |-> <<"U","n","e","x","p","e","c","t","e","d"," ","t","o","k","e","n">>,
   rate |-> <<"R","a","t","e"," ","l","i","m","i","t"," ","e","x","c","e","e","d","e","d">>,
   key |-> <<"I","n","v","a","l","i","d"," ","A","P","I"," ","k","e","y">>,
   http_date |-> <<"W","e","d",","," ","0","4"," ","N","o","v"," ","2","0","2","6"," ","2","1",":","0","0",":","0","5"," ","G","M","T">>,
   timed_out_after |-> <<"R","e","q","u","e","s","t"," ","t","i","m","e","d"," ","o","u","t"," ","a","f","t","e","r"," ">>,
   seconds |-> <<" ","s","e","c","o","n","d","s">>,
   aborted |-> <<"T","h","e"," ","u","s","e","r"," ","a","b","o","r","t","e","d"," ","a"," ","r","e","q","u","e","s","t",".">>,
   prefix |-> <<"X","4","2",":"," ">>,
   separator |-> <<" ","/"," ">>]

\* retry-after headers a server sends: seconds, or an HTTP date
RetryAfterHeaders ==
  {[text |-> <<"2">>, date |-> NoNumber],
   [text |-> <<"0">>, date |-> NoNumber],
   [text |-> <<"6", "0">>, date |-> NoNumber],
   [text |-> Messages.http_date, date |-> <<Now + 5000>>],
   [text |-> Messages.http_date, date |-> <<Now - 1000>>]}

HttpError(status, message, retryAfter) ==
  [message |-> message, response |-> [status |-> status, retryAfter |-> retryAfter]]
PlainError(message) == [message |-> message, response |-> Undefined]

\* the errors fn can throw: HTTP errors carrying their response, and errors
\* without a response (network failure, timeout, parse error, ...)
FnErrors ==
  {HttpError(401, Messages.http401, Null), HttpError(400, Messages.http400, Null),
   HttpError(404, Messages.http404, Null), HttpError(503, Messages.http503, Null),
   HttpError(429, Messages.http429, Null)}
  \cup {HttpError(429, Messages.http429, h) : h \in RetryAfterHeaders}
  \cup {PlainError(Messages.fetch), PlainError(Messages.timed_out), PlainError(Messages.token),
        PlainError(Messages.rate), PlainError(Messages.key)}

\* String(n) for a natural number n
RECURSIVE NumberText(_)
NumberText(n) ==
  IF n < 10 THEN <<Digits[n + 1]>>
  ELSE NumberText(n \div 10) \o <<Digits[(n % 10) + 1]>>

\* the digits after the decimal point of ms / 1000, for 0 < ms % 1000
FractionText(thousandths) ==
  IF thousandths % 100 = 0 THEN NumberText(thousandths \div 100)
  ELSE IF thousandths % 10 = 0
    THEN <<Digits[(thousandths \div 100) + 1]>> \o NumberText((thousandths \div 10) % 10)
  ELSE <<Digits[(thousandths \div 100) + 1], Digits[((thousandths \div 10) % 10) + 1],
         Digits[(thousandths % 10) + 1]>>

\* the text of timeout / 1000
SecondsText(timeout) ==
  NumberText(timeout \div 1000)
    \o (IF timeout % 1000 = 0 THEN <<>> ELSE <<".">> \o FractionText(timeout % 1000))

\* mutation of TimeoutError: the AbortError is thrown as it is
TimeoutErrorUnconverted(timeout) == PlainError(Messages.aborted)

\* fetchWithRetry: the error an aborted attempt is converted to
\* (timeoutError.type is set as well; nothing reads it)
TimeoutError(timeout) ==
  PlainError(Messages.timed_out_after \o SecondsText(timeout) \o Messages.seconds)

\* error.response of a thrown error, as classifyError and withRetry test it
ResponseOf(error) == IF error.response = Undefined THEN Null ELSE error.response

\* what the n-th call of fn returns when it succeeds
FnValue(n) == [response |-> "ok", call |-> n]

Calls == Len(SelectSeq(events, LAMBDA e : e = "call"))
Sleeps == Len(SelectSeq(events, LAMBDA e : e = "sleep"))

BatchIdle ==
  /\ cancelToken = [cancelled |-> FALSE]
  /\ state = [isAnalyzing |-> FALSE, error |-> NullString, progress |-> Progress(""),
              sheetSummary |-> NullString, objectSummaries |-> <<>>, usage |-> Null]
  /\ before = [sheetSummary |-> NullString, objectSummaries |-> <<>>, usage |-> Null]
  /\ qPc = "idle"
  /\ aPc = "idle"
  /\ filteredObjects = <<>>
  /\ batchStart = 0
  /\ batchPromises = <<>>
  /\ objectSummaries = <<>>
  /\ completedCount = 0
  /\ totalUsage = createEmptyUsage
  /\ thrown = NullString
  /\ workerCalls = <<>>
  /\ workerOut = <<>>
  /\ writes = <<>>
  /\ windowsRun = 0
  /\ cancelAt = "none"
  /\ cancelSeen = -1
  /\ progressLog = <<>>
  /\ usageLog = <<>>

InitRetry ==
  /\ BatchIdle
  /\ PureIdle
  /\ RunsIdle
  /\ RetryIdle

\* mutation of AttemptTimer: the sleep before the attempt is taken off
\* the attempt's timeout
AttemptTimerShortenedBySleep(timeout, slept) ==
  [state |-> "armed", length |-> Max(timeout - slept, 0)]

\* setTimeout(function() { controller.abort(); }, timeout) at the start of
\* an attempt that follows a sleep of slept ms (0 before the first attempt)
AttemptTimer(timeout, slept) == [state |-> "armed", length |-> timeout]

\* mutation of clearTimeout: the timer is left as it is
clearTimeoutMissing(timers, k) == timers

\* clearTimeout(timeoutId) for the k-th timer: a pending timer is cancelled,
\* a timer that has fired is left as it is
clearTimeout(timers, k) ==
  [timers EXCEPT ![k].state = IF @ = "armed" THEN "cleared" ELSE @]

\* fn is called: a new controller and a new timer for this attempt
CallFn(timeout, slept) ==
  /\ timer' = Append(timer, AttemptTimer(timeout, slept))
  /\ aborted' = Append(aborted, FALSE)

\* withRetry(fn, opts) is called: the defaults, then the first call of fn
WithRetry(opts) ==
  /\ rPc = "idle"
  /\ LET maxRetries == IF opts.maxRetries # <<>> THEN opts.maxRetries[1] ELSE 3
         baseDelay == IF opts.baseDelay # <<>> /\ opts.baseDelay[1] # 0
                      THEN opts.baseDelay[1] ELSE 1000
         maxDelay == IF opts.maxDelay # <<>> /\ opts.maxDelay[1] # 0
                     THEN opts.maxDelay[1] ELSE 30000
         timeout == IF opts.timeout # <<>> THEN opts.timeout[1] ELSE 30000
     IN /\ options' = [maxRetries |-> maxRetries, baseDelay |-> baseDelay,
                       maxDelay |-> maxDelay, timeout |-> timeout]
        /\ attempt' = 0
        /\ IF 0 <= maxRetries
           THEN /\ rPc' = "calling"
                /\ events' = events \o <<"call">>
                /\ CallFn(timeout, 0)
                /\ UNCHANGED settled
           ELSE /\ rPc' = "thrown"
                /\ settled' = [kind |-> "thrown", value |-> Undefined, error |-> lastError]
                /\ UNCHANGED <<events, timer, aborted>>
  /\ UNCHANGED <<lastError, lastResponse, delay, firstError, drawn>>
  /\ UNCHANGED <<batchVars, pureVars, runVars>>

\* fn() resolved: return await fn()
FnResolve ==
  /\ rPc = "calling"
  /\ rPc' = "returned"
  /\ settled' = [kind |-> "returned", value |-> FnValue(Calls), error |-> Undefined]
  /\ timer' = clearTimeout(timer, attempt + 1)
  /\ UNCHANGED <<options, attempt, lastError, lastResponse, delay, events,
                 firstError, drawn, aborted>>
  /\ UNCHANGED <<batchVars, pureVars, runVars>>

\* mutation of AwaitSleep: sleep(ms) is not awaited, the loop goes on at once
SleepNotAwaited(ms) ==
  /\ delay' = ms
  /\ attempt' = attempt + 1
  /\ rPc' = "calling"
  /\ events' = events \o <<"call">>
  /\ UNCHANGED settled

\* await sleep(ms): withRetry is suspended until the timer fires
AwaitSleep(ms) ==
  /\ delay' = ms
  /\ rPc' = "sleeping"
  /\ events' = events \o <<"sleep">>
  /\ UNCHANGED <<attempt, settled>>

\* mutation of Throw: a generic error is thrown in place of the caught one
ThrowWrapped(error) ==
  /\ rPc' = "thrown"
  /\ settled' = [kind |-> "thrown", value |-> Undefined,
                 error |-> PlainError(Messages.token)]

\* throw error: withRetry's promise rejects with the caught error
Throw(error) ==
  /\ rPc' = "thrown"
  /\ settled' = [kind |-> "thrown", value |-> Undefined, error |-> error]

\* the retry-after hint withRetry reads (line 325): NoNumber when the branch
\* is not taken or the header gives none
RetryHint(errorType, response, now) ==
  IF errorType = ErrorTypes.RATE_LIMIT /\ response # Null
  THEN parseRetryAfter(response, now)
  ELSE NoNumber

\* withRetry's catch block for the error fn threw, up to throw or
\* await sleep(delay); random is what Math.random() returns if it is called
Catch(error, random) ==
  /\ lastError' = error
  /\ lastResponse' = error.response
  /\ firstError' = IF firstError = Undefined THEN error ELSE firstError
  /\ LET errorType == classifyError(error, ResponseOf(error))
         hint == RetryHint(errorType, ResponseOf(error), Now)
     IN IF attempt = options.maxRetries \/ ~isRetryable(errorType)
        THEN /\ Throw(error)
             /\ UNCHANGED <<delay, events, attempt, drawn>>
        ELSE /\ AwaitSleep(RetryDelay(errorType, ResponseOf(error), attempt,
                                      options.baseDelay, options.maxDelay, random, Now))
             /\ drawn' = IF hint # NoNumber /\ hint[1] # 0 THEN drawn ELSE random
  /\ UNCHANGED options

\* fn() rejected with error (fetch rejected, or the response was not ok):
\* finally clearTimeout(timeoutId), then withRetry's catch block
FnReject(error, random) ==
  /\ rPc = "calling"
  /\ timer' = clearTimeout(timer, attempt + 1)
  /\ UNCHANGED aborted
  /\ Catch(error, random)
  /\ UNCHANGED <<batchVars, pureVars, runVars>>

\* the k-th timer fires: controller.abort() on the controller of its own
\* attempt. When that attempt's fetch has not settled, fetch rejects with an
\* AbortError, which is converted to the timeout error and reaches
\* withRetry's catch block after finally clearTimeout(timeoutId)
TimerExpires(k, random) ==
  /\ k \in DOMAIN timer
  /\ timer[k].state = "armed"
  /\ aborted' = [aborted EXCEPT ![k] = TRUE]
  /\ IF rPc = "calling" /\ k = attempt + 1
     THEN /\ timer' = clearTimeout([timer EXCEPT ![k].state = "fired"], k)
          /\ Catch(TimeoutError(options.timeout), random)
     ELSE /\ timer' = [timer EXCEPT ![k].state = "fired"]
          /\ UNCHANGED <<rPc, options, attempt, lastError, lastResponse, delay,
                         settled, events, firstError, drawn>>
  /\ UNCHANGED <<batchVars, pureVars, runVars>>

\* mutation of NextAttempt: the attempt counter is not advanced
NextAttemptStuck(n) == n

\* attempt++
NextAttempt(n) == n + 1

\* sleep(delay) resolved: attempt++, the loop test, and the next call of fn
SleepDone ==
  /\ rPc = "sleeping"
  /\ attempt' = NextAttempt(attempt)
  /\ IF NextAttempt(attempt) <= options.maxRetries
     THEN /\ rPc' = "calling"
          /\ events' = events \o <<"call">>
          /\ CallFn(options.timeout, delay)
          /\ UNCHANGED settled
     ELSE /\ rPc' = "thrown"
          /\ settled' = [kind |-> "thrown", value |-> Undefined, error |-> lastError]
          /\ UNCHANGED <<events, timer, aborted>>
  /\ UNCHANGED <<options, lastError, lastResponse, delay, firstError, drawn>>
  /\ UNCHANGED <<batchVars, pureVars, runVars>>

NextRetry ==
  \/ \E opts \in RetryOptions : WithRetry(opts)
  \/ FnResolve
  \/ \E error \in FnErrors : \E random \in Randoms : FnReject(error, random)
  \/ \E k \in 1..(MaxRetriesOption + 1) : \E random \in Randoms : TimerExpires(k, random)
  \/ SleepDone

SpecRetry == InitRetry /\ [][NextRetry]_vars

(***************************************************************************)
(* The exported functions applied on their own                             *)
(***************************************************************************)
\* values passed to isRetryable: the error types and other strings
ErrorTypeInputs ==
  {ErrorTypes.AUTH_ERROR, ErrorTypes.RATE_LIMIT, ErrorTypes.NETWORK_ERROR,
   ErrorTypes.SERVER_ERROR, ErrorTypes.VALIDATION_ERROR, ErrorTypes.TIMEOUT_ERROR,
   ErrorTypes.UNKNOWN_ERROR}
  \cup {"", "RATE_LIMIT", "TIMEOUT_ERROR", "abort_error", "retryable"}

\* the words classifyError looks for, in the order of its tests
Keywords == <<Words.timeout, Words.timed_out, Words.network, Words.fetch, Words.connection, Words.api_key,
              Words.unauthorized, Words.authentication, Words.rate, Words.limit, Words.quota>>

\* the error type the k-th keyword stands for
KeywordType(k) ==
  IF k <= 2 THEN ErrorTypes.TIMEOUT_ERROR
  ELSE IF k <= 5 THEN ErrorTypes.NETWORK_ERROR
  ELSE IF k <= 8 THEN ErrorTypes.AUTH_ERROR
  ELSE ErrorTypes.RATE_LIMIT

\* a text in capital letters, as a server or a browser may send it
toUpperCase(s) ==
  [k \in 1..Len(s) |->
     IF \E j \in 1..26 : LowerLetters[j] = s[k]
     THEN UpperLetters[CHOOSE j \in 1..26 : LowerLetters[j] = s[k]]
     ELSE s[k]]

\* error texts: without any keyword (one of them empty), with one keyword in
\* small or capital letters, and with two keywords; words lists the keywords
\* the text was built from
ErrorTexts ==
  {[message |-> <<>>, words |-> <<>>], [message |-> Messages.prefix, words |-> <<>>]}
  \cup {[message |-> Messages.prefix \o Keywords[k], words |-> <<k>>] : k \in 1..Len(Keywords)}
  \cup {[message |-> toUpperCase(Keywords[k]), words |-> <<k>>] : k \in 1..Len(Keywords)}
  \cup {[message |-> Keywords[j] \o Messages.separator \o Keywords[k], words |-> <<j, k>>] :
          j \in 1..Len(Keywords), k \in 1..Len(Keywords)}

\* the statuses of the responses errors carry
Statuses == {200, 400, 401, 403, 404, 429, 499, 500, 503, 599, 600}

\* the arguments of classifyError: an error and its response, if any
ClassifyInputs ==
  {[error |-> [message |-> t.message, response |-> Undefined], response |-> Null,
    words |-> t.words] : t \in ErrorTexts}
  \cup {[error |-> HttpError(st, t.message, Null),
         response |-> [status |-> st, retryAfter |-> Null],
         words |-> t.words] : t \in ErrorTexts, st \in Statuses}

\* the arguments of getRetryDelay, and what Math.random() returns in it
DelayInputs ==
  [attempt : 0..MaxAttempt, baseDelay : {0, 500, 1000, 2000},
   maxDelay : {2500, 30000}, random : Randoms]

\* the usages passed to addUsage: without totalTokens (0 stands for a
\* missing field), with the total the provider module computed as the sum
\* (anthropic.js) or took from the response (openai.js total_tokens,
\* gemini.js totalTokenCount), with no tokens at all, and null
AddUsageDeltas ==
  {[inputTokens |-> 10, outputTokens |-> 5, totalTokens |-> 0],
   [inputTokens |-> 3, outputTokens |-> 2, totalTokens |-> 0],
   [inputTokens |-> 10, outputTokens |-> 5, totalTokens |-> 15],
   [inputTokens |-> 7, outputTokens |-> 4, totalTokens |-> 20],
   [inputTokens |-> 0, outputTokens |-> 0, totalTokens |-> 0],
   Null}

\* a provider and a model identifier as configured, with the rule that
\* prices it and the price per 1M tokens (times 1000) of that rule's entry
PricingCase(provider, model, rule, input, output) ==
  [provider |-> provider, model |-> model, rule |-> rule,
   price |-> [input |-> input, output |-> output]]

PricingCases ==
  {PricingCase("openai", ModelNames.gpt4o, "exact", 2500, 10000),
   PricingCase("openai", ModelNames.gpt4turbo, "exact", 10000, 30000),
   PricingCase("anthropic", ModelNames.opus3, "exact", 15000, 75000),
   PricingCase("gemini", ModelNames.pro, "exact", 500, 1500),
   PricingCase("openai", ModelNames.gpt4o_dated, "substring", 2500, 10000),
   PricingCase("openai", ModelNames.gpt4omini_dated, "substring", 150, 600),
   PricingCase("openai", ModelNames.gpt, "substring", 150, 600),
   PricingCase("gemini", ModelNames.pro15_latest, "substring", 1250, 5000),
   PricingCase("openai", ModelNames.o1, "first", 150, 600),
   PricingCase("openai", <<>>, "first", 150, 600),
   PricingCase("anthropic", ModelNames.sonnet45, "first", 250, 1250),
   PricingCase("gemini", ModelNames.flash25, "first", 75, 300),
   PricingCase("openai", ModelNames.constructor, "first", 150, 600),
   PricingCase("anthropic", ModelNames.toString, "first", 250, 1250),
   PricingCase("mistral", ModelNames.gpt4o, "default", 500, 1500),
   PricingCase("", ModelNames.gpt4o, "default", 500, 1500),
   PricingCase("constructor", ModelNames.o1, "default", 500, 1500),
   PricingCase("mistral", <<>>, "default", 500, 1500)}

\* the arguments of calculateCost
CostInputs ==
  {[case |-> c, inputTokens |-> t[1], outputTokens |-> t[2]] :
     c \in PricingCases, t \in {<<0, 0>>, <<10, 5>>, <<100000, 1>>, <<13, 7>>}}

InitPure ==
  /\ BatchIdle
  /\ RetryIdle
  /\ RunsIdle
  /\ pDone = FALSE
  /\ \/ /\ pFn = "isRetryable"
        /\ pIn \in ErrorTypeInputs
        /\ pOut = <<>>
     \/ /\ pFn = "classifyError"
        /\ pIn \in ClassifyInputs
        /\ pOut = <<>>
     \/ /\ pFn = "getRetryDelay"
        /\ pIn \in DelayInputs
        /\ pOut = <<>>
     \/ /\ pFn = "addUsage"
        /\ pIn = <<>>
        /\ pOut = createEmptyUsage
     \/ /\ pFn = "calculateCost"
        /\ pIn \in CostInputs
        /\ pOut = <<>>

\* isRetryable(errorType) is called and returns
IsRetryable ==
  /\ pFn = "isRetryable"
  /\ ~pDone
  /\ pOut' = isRetryable(pIn)
  /\ pDone' = TRUE
  /\ UNCHANGED <<pFn, pIn>>
  /\ UNCHANGED <<batchVars, retryVars, runVars>>

\* classifyError(error, response) is called and returns
ClassifyError ==
  /\ pFn = "classifyError"
  /\ ~pDone
  /\ pOut' = classifyError(pIn.error, pIn.response)
  /\ pDone' = TRUE
  /\ UNCHANGED <<pFn, pIn>>
  /\ UNCHANGED <<batchVars, retryVars, runVars>>

\* getRetryDelay(attempt, baseDelay, maxDelay) is called and returns
GetRetryDelay ==
  /\ pFn = "getRetryDelay"
  /\ ~pDone
  /\ pOut' = getRetryDelay(pIn.attempt, pIn.baseDelay, pIn.maxDelay, pIn.random)
  /\ pDone' = TRUE
  /\ UNCHANGED <<pFn, pIn>>
  /\ UNCHANGED <<batchVars, retryVars, runVars>>

\* addUsage(total, usage) is called on the running total; pIn lists the
\* usages added so far
AddUsage(usage) ==
  /\ pFn = "addUsage"
  /\ Len(pIn) < MaxDeltas
  /\ pOut' = addUsage(pOut, usage)
  /\ pIn' = Append(pIn, usage)
  /\ pDone' = TRUE
  /\ UNCHANGED pFn
  /\ UNCHANGED <<batchVars, retryVars, runVars>>

\* calculateCost(provider, model, inputTokens, outputTokens) is called
\* and returns
CalculateCost ==
  /\ pFn = "calculateCost"
  /\ ~pDone
  /\ pOut' = calculateCost(pIn.case.provider, pIn.case.model,
                           pIn.inputTokens, pIn.outputTokens)
  /\ pDone' = TRUE
  /\ UNCHANGED <<pFn, pIn>>
  /\ UNCHANGED <<batchVars, retryVars, runVars>>

NextPure ==
  \/ CalculateCost
  \/ IsRetryable
  \/ ClassifyError
  \/ GetRetryDelay
  \/ \E usage \in AddUsageDeltas : AddUsage(usage)

SpecPure == InitPure /\ [][NextPure]_vars

(***************************************************************************)
(* A batch run, or a call of withRetry, in which what is awaited settles:  *)
(* every engine call, worker, sheet summary and attempt of fn eventually    *)
(* returns, fails or times out, every sleep timer fires, and a resolved     *)
(* promise resumes the code that awaits it. Clicks are under no obligation. *)
(***************************************************************************)
\* the attempt of fn in progress ends: it returns, fails or times out
AttemptEnds ==
  \/ FnResolve
  \/ \E error \in {HttpError(401, Messages.http401, Null),
                    HttpError(503, Messages.http503, Null),
                    HttpError(429, Messages.http429, [text |-> <<"2">>, date |-> NoNumber]),
                    PlainError(Messages.fetch)} :
       \E random \in Randoms : FnReject(error, random)
  \/ \E k \in 1..(MaxRetriesOption + 1) : \E random \in Randoms : TimerExpires(k, random)

\* a worker of the window in flight settles: it succeeds with usage or
\* fails
WorkerSettles ==
  \E k \in DOMAIN batchPromises :
    \E r \in {o \in WorkerOutcomes(batchPromises[k].obj) :
                o.usage # Null \/ o.message = "HTTP 503: Service Unavailable"} :
      WorkerSettle(k, r)

\* getSheetObjects resolves with a sheet of no object, of one, or of two
\* windows
SheetObjectsResolve == \E n \in {0, 1, 4} : GetSheetObjectsResolve(n)

\* a batch run, or a call of withRetry made from the idle state
NextFair ==
  \/ rPc = "idle" /\ \E hasApiKey \in BOOLEAN : AnalyzeSheet(hasApiKey)
  \/ SheetObjectsResolve
  \/ EngineReject
  \/ GetCurrentSelectionsResolve
  \/ WorkerSettles
  \/ WindowResolved
  \/ \E r \in SheetOutcomes : SheetSummarySettle(r)
  \/ \E ok \in BOOLEAN : CallerFinish(ok)
  \/ CancelAnalysis
  \/ rPc = "idle" /\ Destroy
  \/ /\ qPc = "idle" /\ ~cancelToken.cancelled /\ state.sheetSummary = NullString
     /\ \E opts \in {o \in RetryOptions :
                        o.baseDelay = <<>> /\ o.maxDelay = <<>> /\ o.timeout = <<>>} :
          WithRetry(opts)
  \/ AttemptEnds
  \/ SleepDone

Fairness ==
  /\ WF_vars(SheetObjectsResolve)
  /\ WF_vars(GetCurrentSelectionsResolve)
  /\ WF_vars(WorkerSettles)
  /\ WF_vars(WindowResolved)
  /\ WF_vars(\E r \in SheetOutcomes : SheetSummarySettle(r))
  /\ WF_vars(\E ok \in BOOLEAN : CallerFinish(ok))
  /\ WF_vars(AttemptEnds)
  /\ WF_vars(SleepDone)

SpecFair == Init /\ [][NextFair]_vars /\ Fairness

(***************************************************************************)
(* Several invocations of Qlik2Review.js analyzeSheet: the Analyze and     *)
(* Cancel buttons and the auto-analyze timer, on the shared state and      *)
(* cancelToken. A window of a run is one step here: its workers touch       *)
(* neither state nor cancelToken.                                          *)
(***************************************************************************)
MaxRuns == 2

RunIds == 1..MaxRuns

\* an invocation that has not been made
NotStarted == [pc |-> "none", by |-> "none", n |-> 0, batchStart |-> 0, windows |-> 0,
               stored |-> FALSE, cancelRequested |-> FALSE]

\* the invocations that have started and not yet ended
RunsInProgress == {r \in RunIds : runs[r].pc \notin {"none", "ended"}}

\* the variables of the single run, which these invocations leave alone
singleRunVars == <<qPc, aPc, analyzerVars, thrown, cancelAt, cancelSeen, before,
                   progressLog, usageLog>>

InitRuns ==
  /\ BatchIdle
  /\ RetryIdle
  /\ PureIdle
  /\ runs = [r \in RunIds |-> NotStarted]
  /\ autoAnalyzeTimer = FALSE

\* invocation r ends with an error: catch (err) { state.error = ...;
\* state.progress = '' } finally { state.isAnalyzing = false }
RunRaise(r, message) ==
  /\ state' = [state EXCEPT !.error = message, !.progress = Progress(""),
                            !.isAnalyzing = FALSE]
  /\ runs' = [runs EXCEPT ![r].pc = "ended"]

\* analyzeSheet() is invoked for the r-th time, by a click or by the timer,
\* from its guard to the first await of analyzer.analyzeSheet
AnalyzeSheetRun(r, by, hasApiKey) ==
  /\ runs[r].pc = "none"
  /\ \A q \in 1..(r - 1) : runs[q].pc # "none"
  /\ ~state.isAnalyzing
  /\ autoAnalyzeTimer' = FALSE
  /\ cancelToken' = [cancelled |-> FALSE]
  /\ IF ~hasApiKey
     THEN /\ state' = [state EXCEPT
                         !.error = "API key is required. Please configure in extension properties.",
                         !.progress = Progress(""), !.isAnalyzing = FALSE]
          /\ runs' = [runs EXCEPT ![r].pc = "ended", ![r].by = by]
     ELSE /\ state' = [state EXCEPT !.isAnalyzing = TRUE, !.error = NullString,
                                    !.progress = Progress("Fetching sheet objects...")]
          /\ runs' = [runs EXCEPT ![r].pc = "getSheetObjects", ![r].by = by]

\* a click on the Analyze or Refresh button
ClickAnalyze(r, hasApiKey) ==
  /\ AnalyzeSheetRun(r, "click", hasApiKey)
  /\ UNCHANGED <<singleRunVars, retryVars, pureVars>>

\* the selection poll sees changed selections and schedules auto-analyze
ScheduleAutoAnalyze ==
  /\ state.sheetSummary # NullString
  /\ ~state.isAnalyzing
  /\ ~autoAnalyzeTimer
  /\ autoAnalyzeTimer' = TRUE
  /\ UNCHANGED <<cancelToken, state, runs, singleRunVars, retryVars, pureVars>>

\* the auto-analyze timer fires
AutoAnalyzeFires(r, hasApiKey) ==
  /\ autoAnalyzeTimer
  /\ IF ~state.isAnalyzing
     THEN AnalyzeSheetRun(r, "timer", hasApiKey)
     ELSE /\ autoAnalyzeTimer' = FALSE
          /\ UNCHANGED <<cancelToken, state, runs>>
  /\ UNCHANGED <<singleRunVars, retryVars, pureVars>>

\* cancelAnalysis: the Cancel button, shown while isAnalyzing. Every
\* invocation in progress is thereby a cancelled one
CancelRuns ==
  /\ state.isAnalyzing
  /\ cancelToken' = [cancelled |-> TRUE]
  /\ state' = [state EXCEPT !.isAnalyzing = FALSE, !.progress = Progress("Cancelled"),
                            !.error = "Analysis cancelled by user"]
  /\ runs' = [r \in RunIds |->
                IF r \in RunsInProgress
                THEN [runs[r] EXCEPT !.cancelRequested = TRUE]
                ELSE runs[r]]
  /\ UNCHANGED <<autoAnalyzeTimer, singleRunVars, retryVars, pureVars>>

\* the head of invocation r's window loop at batchStart = bs, and what
\* follows the loop
RunLoopHead(r, bs) ==
  IF bs < runs[r].n
  THEN IF CancelledBeforeWindow
       THEN RunRaise(r, AnalysisCancelled)
       ELSE /\ runs' = [runs EXCEPT ![r].pc = "window", ![r].batchStart = bs,
                                    ![r].windows = @ + 1]
            /\ state' = [state EXCEPT !.progress =
                           ProgressOf("Analyzing", bs + 1,
                                      Min(bs + BATCH_SIZE, runs[r].n), runs[r].n)]
  ELSE IF CancelledAfterLoop
       THEN RunRaise(r, AnalysisCancelled)
       ELSE /\ runs' = [runs EXCEPT ![r].pc = "sheetSummary", ![r].batchStart = bs]
            /\ state' = [state EXCEPT !.progress = Progress("Generating sheet summary...")]

\* what invocation r stores when it returns with n object summaries
RunResult(n) ==
  [sheetSummary |-> IF n = 0 THEN "No analyzable objects found on this sheet."
                    ELSE "sheet summary",
   objectSummaries |-> [k \in 1..n |->
                          [id |-> ObjIds[k], title |-> ObjTitles[k], type |-> ObjTypes[k],
                           summary |-> "summary", error |-> FALSE]],
   usage |-> IF n = 0 THEN Null ELSE createEmptyUsage]

\* analyzer.analyzeSheet returned to invocation r: the check of the token,
\* then the results are stored (Qlik2Review.js lines 2719-2728)
RunStore(r, n) ==
  IF CancelledAfterAnalyzer
  THEN RunRaise(r, AnalysisCancelled)
  ELSE /\ state' = [state EXCEPT !.sheetSummary = RunResult(n).sheetSummary,
                                 !.objectSummaries = RunResult(n).objectSummaries,
                                 !.usage = RunResult(n).usage,
                                 !.progress = Progress("")]
       /\ runs' = [runs EXCEPT ![r].pc = "post", ![r].stored = TRUE, ![r].n = n]

\* engineService.getSheetObjects of invocation r resolved and
\* objectFilter.filterObjects left n objects
RunGetSheetObjects(r, n) ==
  /\ runs[r].pc = "getSheetObjects"
  /\ IF CancelledBeforeLoop
     THEN RunRaise(r, AnalysisCancelled)
     ELSE IF n = 0
     THEN RunStore(r, 0)
     ELSE /\ runs' = [runs EXCEPT ![r].pc = "getCurrentSelections", ![r].n = n]
          /\ state' = [state EXCEPT !.progress = Progress("Getting current selections...")]
  /\ UNCHANGED <<cancelToken, autoAnalyzeTimer, singleRunVars, retryVars, pureVars>>

\* engineService.getCurrentSelections of invocation r resolved
RunGetCurrentSelections(r) ==
  /\ runs[r].pc = "getCurrentSelections"
  /\ IF CancelledBeforeLoop
     THEN RunRaise(r, AnalysisCancelled)
     ELSE RunLoopHead(r, 0)
  /\ UNCHANGED <<cancelToken, autoAnalyzeTimer, singleRunVars, retryVars, pureVars>>

\* an engine call of invocation r rejected
RunEngineReject(r) ==
  /\ runs[r].pc \in {"getSheetObjects", "getCurrentSelections"}
  /\ RunRaise(r, "Engine error")
  /\ UNCHANGED <<cancelToken, autoAnalyzeTimer, singleRunVars, retryVars, pureVars>>

\* Promise.all of invocation r's window resolved
RunWindowResolved(r) ==
  /\ runs[r].pc = "window"
  /\ RunLoopHead(r, NextBatchStart(runs[r].batchStart))
  /\ UNCHANGED <<cancelToken, autoAnalyzeTimer, singleRunVars, retryVars, pureVars>>

\* generateSheetSummary of invocation r settled
RunSheetSummarySettle(r, ok) ==
  /\ runs[r].pc = "sheetSummary"
  /\ IF ok
     THEN RunStore(r, runs[r].n)
     ELSE RunRaise(r, "HTTP 500: Internal Server Error")
  /\ UNCHANGED <<cancelToken, autoAnalyzeTimer, singleRunVars, retryVars, pureVars>>

\* invocation r, after what follows the storing of the results, reaches
\* finally { state.isAnalyzing = false }
RunFinish(r) ==
  /\ runs[r].pc = "post"
  /\ runs' = [runs EXCEPT ![r].pc = "ended"]
  /\ state' = [state EXCEPT !.isAnalyzing = FALSE, !.progress = Progress("")]
  /\ UNCHANGED <<cancelToken, autoAnalyzeTimer, singleRunVars, retryVars, pureVars>>

NextRuns ==
  \/ \E r \in RunIds : \E hasApiKey \in BOOLEAN : AutoAnalyzeFires(r, hasApiKey)
  \/ \E r \in RunIds : \E hasApiKey \in BOOLEAN : ClickAnalyze(r, hasApiKey)
  \/ ScheduleAutoAnalyze
  \/ CancelRuns
  \/ \E r \in RunIds : \E n \in {0, 2, 4} : RunGetSheetObjects(r, n)
  \/ \E r \in RunIds : RunGetCurrentSelections(r)
  \/ \E r \in RunIds : RunEngineReject(r)
  \/ \E r \in RunIds : RunWindowResolved(r)
  \/ \E r \in RunIds : \E ok \in BOOLEAN : RunSheetSummarySettle(r, ok)
  \/ \E r \in RunIds : RunFinish(r)

SpecRuns == InitRuns /\ [][NextRuns]_vars

(***************************************************************************)
(* Properties of the batch (Spec)                                          *)
(***************************************************************************)
\* the workers in flight, as an instrumented counter sees them: called and
\* not yet settled
Running == {i \in DOMAIN workerCalls : workerCalls[i] > 0 /\ workerOut[i] = Null}

\* the window an index belongs to
WindowOf(i) == i \div BATCH_SIZE

\* the outcome of item i as its own worker result determines it
ExpectedOutcome(i) ==
  LET obj == filteredObjects[i + 1]
      r == workerOut[i]
  IN [id |-> obj.id, title |-> obj.title, type |-> obj.type,
      summary |-> IF r.ok THEN r.text ELSE <<"Analysis failed: ", r.message>>,
      error |-> ~r.ok]

\* the window loop ran to its end without a cancellation
BatchCompleted == aPc \in {"sheetSummary", "returned"} \/ (aPc = "raised" /\ thrown \notin {AnalysisCancelled, "Engine error", "Unknown AI provider"})

\* C1: at every instant of a batch run at most BATCH_SIZE workers are in
\* flight, whatever the number of items and the order in which workers settle.
C1_AtMostBatchSizeInFlight == Cardinality(Running) <= BATCH_SIZE

\* a full window in flight on a sheet with more objects than one window
C1_Witness == Cardinality(Running) = BATCH_SIZE /\ N > BATCH_SIZE

\* C2: a batch that is not cancelled produces exactly N outcomes, the
\* outcome at position i is the outcome of input item i, and no position is
\* left empty or written twice.
C2_OutcomesInInputOrder ==
  /\ \A i \in DOMAIN writes : writes[i] <= 1
  /\ Len(objectSummaries) <= N
  /\ BatchCompleted =>
       /\ Len(objectSummaries) = N
       /\ completedCount = N
       /\ \A i \in 0..(N - 1) :
            /\ writes[i] = 1
            /\ objectSummaries[i + 1] # Undefined
            /\ objectSummaries[i + 1].id = filteredObjects[i + 1].id
            /\ objectSummaries[i + 1] = ExpectedOutcome(i)
  /\ qPc = "post" => state.objectSummaries = objectSummaries

\* a completed batch of more than one window, stored by the caller
C2_Witness == qPc = "post" /\ N > BATCH_SIZE /\ Len(state.objectSummaries) = N

\* C3: a worker that throws for item k becomes a failed outcome at index k
\* with the item's id, title and type and the error's message; the error is
\* never thrown out of the batch, its window is processed whole, and every
\* outcome is determined by its own item's worker result alone.
C3_FailureIsolated ==
  /\ thrown \notin WorkerErrors
  /\ \A k \in DOMAIN batchPromises :
       LET p == batchPromises[k]
       IN (p.result # Pending /\ ~workerOut[p.item].ok) =>
            /\ p.result.index = p.item
            /\ p.result.data.error
            /\ p.result.data.id = filteredObjects[p.item + 1].id
            /\ p.result.data.title = filteredObjects[p.item + 1].title
            /\ p.result.data.type = filteredObjects[p.item + 1].type
            /\ p.result.data.summary = <<"Analysis failed: ", workerOut[p.item].message>>
  /\ \A i \in DOMAIN writes :
       /\ writes[i] > 0 => objectSummaries[i + 1] = ExpectedOutcome(i)
       /\ (workerCalls[i] > 0 /\ (i < batchStart \/ aPc # "window")) => writes[i] = 1

\* a completed batch in which one item of a window failed and another of the
\* same window succeeded
C3_Witness ==
  /\ aPc = "returned"
  /\ \E k, j \in DOMAIN workerOut :
       /\ WindowOf(k) = WindowOf(j)
       /\ ~workerOut[k].ok
       /\ workerOut[j].ok
       /\ objectSummaries[k + 1].error
       /\ ~objectSummaries[j + 1].error

\* C4: no item of a later window is launched before every item of each
\* earlier window has resolved, by success or by caught failure.
C4_WindowsDoNotOverlap ==
  \A i, j \in DOMAIN workerCalls :
    (WindowOf(i) < WindowOf(j) /\ workerCalls[j] > 0) => workerOut[i] # Null

\* the second window is in flight after a window with a failed item
C4_Witness ==
  /\ aPc = "window"
  /\ batchStart = BATCH_SIZE
  /\ Running # {}
  /\ \E i \in 0..(BATCH_SIZE - 1) : ~workerOut[i].ok

C6_CancelDuringWindow ==
  (cancelSeen >= 0 /\ cancelToken.cancelled) =>
    /\ aPc \in {"window", "raised"}
    /\ aPc = "window" => batchStart = cancelSeen
    /\ aPc = "raised" =>
         /\ thrown = AnalysisCancelled
         /\ \A i \in cancelSeen..(Min(cancelSeen + BATCH_SIZE, N) - 1) :
              workerOut[i] # Null /\ writes[i] = 1
    /\ \A i \in DOMAIN workerCalls :
         /\ workerCalls[i] <= 1
         /\ i >= cancelSeen + BATCH_SIZE => workerCalls[i] = 0

\* cancelled during the first window of a sheet with a second window: the
\* first window ran to completion, the second never started
C6_Witness ==
  /\ cancelSeen = 0
  /\ aPc = "raised"
  /\ N > BATCH_SIZE
  /\ completedCount = BATCH_SIZE

\* C7: when the run ends by raising 'Analysis cancelled', the outcomes of
\* the completed windows are discarded and the stored results (sheetSummary,
\* objectSummaries, usage) are what they were before the run.
C7_CancelledKeepsStoredResults ==
  /\ qPc = "analyzer" => Results(state) = before
  /\ (qPc = "done" /\ (thrown = AnalysisCancelled \/ state.error = AnalysisCancelled)) =>
       Results(state) = before

\* cancelled after a window completed, with earlier results in the store
C7_Witness ==
  /\ qPc = "done"
  /\ thrown = AnalysisCancelled
  /\ completedCount > 0
  /\ before.sheetSummary # NullString
  /\ Results(state) = before

(***************************************************************************)
(* Properties of withRetry (SpecRetry)                                     *)
(***************************************************************************)
Retryable(error) == isRetryable(classifyError(error, ResponseOf(error)))

\* C8: fn is attempted at most maxRetries + 1 times, whatever fails; with
\* maxRetries = 0 it is attempted exactly once.
C8_AttemptsBounded ==
  rPc # "idle" =>
    /\ Calls <= options.maxRetries + 1
    /\ attempt <= options.maxRetries
    /\ (options.maxRetries = 0 /\ rPc \in {"returned", "thrown"}) => Calls = 1

\* every attempt was made and failed: the retries are exhausted
C8_Witness ==
  /\ rPc = "thrown"
  /\ options.maxRetries >= 2
  /\ Calls = options.maxRetries + 1
  /\ Retryable(lastError)

\* C9: an attempt that fails with a classification that is not retryable
\* makes withRetry throw that error at once: no sleep and no further attempt
\* follow, however many retries remain.
C9_NonRetryableFailsFast ==
  [][ /\ (/\ rPc = "calling"
          /\ rPc' \in {"thrown", "sleeping"}
          /\ classifyError(lastError', ResponseOf(lastError'))
               \in {ErrorTypes.AUTH_ERROR, ErrorTypes.VALIDATION_ERROR,
                    ErrorTypes.UNKNOWN_ERROR}) =>
           /\ rPc' = "thrown"
           /\ settled'.kind = "thrown"
           /\ settled'.error = lastError'
           /\ events' = events
      /\ rPc = "thrown" => (rPc' = "thrown" /\ events' = events) ]_vars

\* maxRetries = 1 and a first failure classified as an authentication
\* error: one attempt, no sleep
C9_Witness ==
  /\ rPc = "thrown"
  /\ options.maxRetries = 1
  /\ classifyError(lastError, ResponseOf(lastError)) = ErrorTypes.AUTH_ERROR
  /\ Calls = 1
  /\ Sleeps = 0

\* C10: when fn succeeds on attempt k after k-1 retryable failures,
\* withRetry returns attempt k's value after exactly k-1 sleeps, one between
\* each pair of consecutive attempts and none after the success.
C10_SuccessAfterRetries ==
  rPc = "returned" =>
    /\ settled.kind = "returned"
    /\ settled.value = FnValue(attempt + 1)
    /\ Calls = attempt + 1
    /\ Calls <= options.maxRetries + 1
    /\ Sleeps = Calls - 1
    /\ Len(events) = 2 * Calls - 1
    /\ \A k \in 1..Len(events) : events[k] = IF k % 2 = 1 THEN "call" ELSE "sleep"
    /\ attempt > 0 => Retryable(lastError)

\* maxRetries = 2, two rate-limit failures, success on the third attempt
C10_Witness ==
  /\ rPc = "returned"
  /\ options.maxRetries = 2
  /\ Calls = 3
  /\ Sleeps = 2
  /\ classifyError(lastError, ResponseOf(lastError)) = ErrorTypes.RATE_LIMIT
  /\ settled.value = FnValue(3)

\* the classifications the retry loop retries
RetryableTypes == {ErrorTypes.RATE_LIMIT, ErrorTypes.NETWORK_ERROR,
                   ErrorTypes.SERVER_ERROR, ErrorTypes.TIMEOUT_ERROR}

\* C11: when all maxRetries + 1 attempts have failed, the last of them with a
\* retryable classification, withRetry has thrown the error of the last
\* attempt itself (same message, same response), and the last thing it did
\* was that attempt: one sleep between the attempts, none after the last.
C11_LastErrorRaised ==
  (/\ rPc = "thrown"
   /\ Calls = options.maxRetries + 1
   /\ classifyError(lastError, ResponseOf(lastError)) \in RetryableTypes) =>
     /\ settled.kind = "thrown"
     /\ settled.error = lastError
     /\ events[Len(events)] = "call"
     /\ Sleeps = options.maxRetries

\* three attempts (maxRetries = 2) failed, the first and the last with
\* different retryable errors
C11_Witness ==
  /\ rPc = "thrown"
  /\ options.maxRetries = 2
  /\ Calls = 3
  /\ Sleeps = 2
  /\ classifyError(firstError, ResponseOf(firstError)) \in RetryableTypes
  /\ classifyError(lastError, ResponseOf(lastError)) \in RetryableTypes
  /\ firstError # lastError
  /\ settled.error = lastError

\* C12: isRetryable returns true for the rate-limit, network, server and
\* timeout types and false for every other value.
C12_RetryableExactly ==
  (pFn = "isRetryable" /\ pDone) => (pOut <=> pIn \in RetryableTypes)

\* isRetryable('timeout_error') has returned true
C12_Witness ==
  /\ pFn = "isRetryable"
  /\ pDone
  /\ pIn = ErrorTypes.TIMEOUT_ERROR
  /\ pOut = TRUE

\* C13: when a response is present, status 401 or 403 gives the auth type,
\* 429 the rate-limit type, 400 the validation type and 500..599 the server
\* type, whatever keywords the error text contains.
C13_StatusDecidesFirst ==
  (pFn = "classifyError" /\ pDone /\ pIn.response # Null) =>
    LET status == pIn.response.status
    IN /\ status \in {401, 403} => pOut = ErrorTypes.AUTH_ERROR
       /\ status = 429 => pOut = ErrorTypes.RATE_LIMIT
       /\ status = 400 => pOut = ErrorTypes.VALIDATION_ERROR
       /\ (status >= 500 /\ status <= 599) => pOut = ErrorTypes.SERVER_ERROR

\* a 429 response whose error text says 'timeout' is a rate limit
C13_Witness ==
  /\ pFn = "classifyError"
  /\ pDone
  /\ pIn.response # Null
  /\ pIn.response.status = 429
  /\ pIn.words = <<1>>
  /\ pOut = ErrorTypes.RATE_LIMIT

\* the error type of the earliest-tested keyword among words, or the
\* unknown type when there is none
FirstKeywordType(words) ==
  IF words = <<>> THEN ErrorTypes.UNKNOWN_ERROR
  ELSE LET first == CHOOSE k \in {words[j] : j \in 1..Len(words)} :
                      \A j \in 1..Len(words) : k <= words[j]
       IN KeywordType(first)

\* C14: when no response status decides, the result is the type of the
\* first keyword, in the order timeout, network, auth, rate limit, that the
\* lower-cased error text contains, and the unknown type when it contains
\* none.
C14_TextRulesInOrder ==
  (/\ pFn = "classifyError"
   /\ pDone
   /\ \/ pIn.response = Null
      \/ pIn.response.status \notin {400, 401, 403, 429} \cup 500..599) =>
    pOut = FirstKeywordType(pIn.words)

\* 'rate / timed out' without a response is a timeout
C14_Witness ==
  /\ pFn = "classifyError"
  /\ pDone
  /\ pIn.response = Null
  /\ pIn.words = <<9, 2>>
  /\ pOut = ErrorTypes.TIMEOUT_ERROR

\* C15: getRetryDelay returns min(exp + jitter, maxDelay), where exp is
\* baseDelay * 2^attempt and jitter lies between 0 and 30% of exp: the result
\* never exceeds maxDelay, is maxDelay when exp reaches it, and lies between
\* exp and 1.3 * exp otherwise.
C15_DelayCapped ==
  (pFn = "getRetryDelay" /\ pDone) =>
    LET exp == pIn.baseDelay * 2^(pIn.attempt)
    IN /\ pOut <= pIn.maxDelay
       /\ exp >= pIn.maxDelay => pOut = pIn.maxDelay
       /\ exp < pIn.maxDelay => (exp <= pOut /\ 10 * pOut <= 13 * exp)

\* getRetryDelay(3, 1000, 2500): 8000 and its jitter are cut to 2500
C15_Witness ==
  /\ pFn = "getRetryDelay"
  /\ pDone
  /\ pIn.attempt = 3
  /\ pIn.baseDelay = 1000
  /\ pIn.maxDelay = 2500
  /\ pIn.random = 9
  /\ pOut = 2500

\* what each header of RetryAfterHeaders asks for, in milliseconds: seconds
\* times 1000, or the date's distance from now, at least 0
HintMillis(header) ==
  IF header.date # NoNumber THEN Max(0, header.date[1] - Now)
  ELSE IF header.text = <<"2">> THEN 2000
  ELSE IF header.text = <<"6", "0">> THEN 60000
  ELSE 0

\* C16: after a failure classified as a rate limit whose response carries a
\* retry-after value that is not negative, the sleep before the next attempt
\* is that value in milliseconds, not the computed delay.
C16_HintIsTheSleep ==
  (/\ rPc = "sleeping"
   /\ classifyError(lastError, ResponseOf(lastError)) = ErrorTypes.RATE_LIMIT
   /\ ResponseOf(lastError) # Null
   /\ ResponseOf(lastError).retryAfter # Null) =>
     delay = HintMillis(ResponseOf(lastError).retryAfter)

\* C17: after a failure classified as a rate limit without a retry-after
\* hint (a response without the header, or no response) the sleep is
\* getRetryDelay(attempt, 2 * baseDelay, maxDelay); after any other retryable
\* failure it is getRetryDelay(attempt, baseDelay, maxDelay).
C17_DoubledBaseWithoutHint ==
  rPc = "sleeping" =>
    LET errorType == classifyError(lastError, ResponseOf(lastError))
        response == ResponseOf(lastError)
    IN /\ (/\ errorType = ErrorTypes.RATE_LIMIT
           /\ (response = Null \/ response.retryAfter = Null)) =>
             delay = getRetryDelay(attempt, 2 * options.baseDelay, options.maxDelay, drawn)
       /\ errorType \in RetryableTypes \ {ErrorTypes.RATE_LIMIT} =>
             delay = getRetryDelay(attempt, options.baseDelay, options.maxDelay, drawn)

\* C18: when the timer of an attempt fires before the call has returned,
\* the call is aborted and the attempt fails with an error classified as a
\* timeout; withRetry sleeps and retries unless this was the last attempt,
\* in which case it throws that error.
C18_TimeoutIsRetried ==
  [][ (rPc = "calling" /\ timer[attempt + 1].state = "armed"
         /\ timer'[attempt + 1].state = "fired") =>
        /\ aborted'[attempt + 1]
        /\ classifyError(lastError', ResponseOf(lastError')) = ErrorTypes.TIMEOUT_ERROR
        /\ IF attempt < options.maxRetries
           THEN rPc' = "sleeping" /\ events' = events \o <<"sleep">>
           ELSE rPc' = "thrown" /\ settled'.error = lastError' /\ events' = events ]_vars

\* the first attempt ran into its half-second timer and was aborted;
\* withRetry has slept and is making the second attempt
C18_Witness ==
  /\ rPc = "calling"
  /\ attempt = 1
  /\ timer[2].state = "armed"
  /\ ~aborted[2]
  /\ options.timeout = 500
  /\ lastError = TimeoutError(500)
  /\ events = <<"call", "sleep", "call">>

\* what a usage counts for: its input tokens, its output tokens, or the
\* total it reports (the sum of both when it reports none)
Counted(usage, what) ==
  IF usage = Null THEN 0
  ELSE IF what = "input" THEN usage.inputTokens
  ELSE IF what = "output" THEN usage.outputTokens
  ELSE IF usage.totalTokens # 0 THEN usage.totalTokens
  ELSE usage.inputTokens + usage.outputTokens

\* the sum of Counted(usage, what) over the usages of deltas
RECURSIVE SumOver(_, _)
SumOver(deltas, what) ==
  IF deltas = <<>> THEN 0
  ELSE Counted(Head(deltas), what) + SumOver(Tail(deltas), what)

\* C19 as stated: after adding any sequence of usages to an empty total,
\* inputTokens and outputTokens are the sums of the usages' input and output
\* tokens and totalTokens is the sum of both.
C19_TotalIsInputPlusOutput ==
  pFn = "addUsage" =>
    /\ pOut.inputTokens = SumOver(pIn, "input")
    /\ pOut.outputTokens = SumOver(pIn, "output")
    /\ pOut.totalTokens = SumOver(pIn, "input") + SumOver(pIn, "output")

\* C19 as amended: inputTokens and outputTokens are the sums of the usages'
\* input and output tokens, and totalTokens is the sum of what each usage
\* counts as its total: its own totalTokens when it reports one, its input
\* plus output tokens otherwise; a null usage adds nothing.
C19_TotalIsSumOfReportedTotals ==
  pFn = "addUsage" =>
    /\ pOut.inputTokens = SumOver(pIn, "input")
    /\ pOut.outputTokens = SumOver(pIn, "output")
    /\ pOut.totalTokens = SumOver(pIn, "reported")

\* {in: 10, out: 5} then {in: 3, out: 2}: {in: 13, out: 7}, 20 in total
C19_Witness ==
  /\ pFn = "addUsage"
  /\ pIn = <<[inputTokens |-> 10, outputTokens |-> 5, totalTokens |-> 0],
             [inputTokens |-> 3, outputTokens |-> 2, totalTokens |-> 0]>>
  /\ pOut = [inputTokens |-> 13, outputTokens |-> 7, totalTokens |-> 20,
             estimatedCost |-> 0]

\* the number of times addUsage was invoked for the outcome of item i
AddsFor(i) ==
  Cardinality({k \in 1..Len(usageLog) :
                 usageLog[k].by = "addUsage" /\ usageLog[k].index = i})

\* item i's outcome has been taken from its window's results
Processed(i) == i \in DOMAIN writes /\ writes[i] >= 1

C22_CostByFirstRule ==
  (pFn = "calculateCost" /\ pDone) =>
    /\ pOut # NaN
    /\ pOut = <<pIn.inputTokens * pIn.case.price.input
                  + pIn.outputTokens * pIn.case.price.output>>

\* the items launched so far
Launched == {i \in DOMAIN workerCalls : workerCalls[i] > 0}

\* the number of windows of N items: the ceiling of N / BATCH_SIZE
WindowCount == (N + BATCH_SIZE - 1) \div BATCH_SIZE

\* C23: the batch partitions the N items into exactly ceil(N / BATCH_SIZE)
\* consecutive windows of at most BATCH_SIZE items that do not overlap: the
\* w-th window is the items (w-1)*BATCH_SIZE .. min(w*BATCH_SIZE, N) - 1, and
\* every item is launched exactly once, in its window.
C23_WindowsPartitionItems ==
  /\ \A i \in DOMAIN workerCalls : workerCalls[i] <= 1
  /\ Launched = 0..(Min(windowsRun * BATCH_SIZE, N) - 1)
  /\ windowsRun <= WindowCount
  /\ aPc = "window" =>
       /\ batchStart = (windowsRun - 1) * BATCH_SIZE
       /\ Len(batchPromises) = Min(BATCH_SIZE, N - batchStart)
       /\ Len(batchPromises) \in 1..BATCH_SIZE
       /\ \A k \in DOMAIN batchPromises : batchPromises[k].item = batchStart + k - 1
  /\ BatchCompleted =>
       /\ windowsRun = WindowCount
       /\ Launched = 0..(N - 1)

\* five items in two windows, item 2 failing and the other four succeeding
C23_Witness ==
  /\ aPc = "returned" /\ N = 5 /\ windowsRun = 2
  /\ \A i \in 0..4 : workerCalls[i] = 1 /\ (workerOut[i].ok <=> i # 2)
  /\ \A i \in 0..4 : objectSummaries[i + 1].error <=> i = 2

\* C24: every attempt of fetchWithRetry starts with a timer of its own, set
\* at the start of the attempt to the full timeout whatever attempts and
\* sleeps went before, and the controller of an attempt is aborted only by
\* the firing of that attempt's own timer.
C24_FreshTimerPerAttempt ==
  [][ /\ (events' = events \o <<"call">>) =>
           /\ timer' = Append(timer, [state |-> "armed", length |-> options'.timeout])
           /\ Len(timer') = attempt' + 1
           /\ aborted' = Append(aborted, FALSE)
      /\ (events' # events \o <<"call">>) =>
           /\ Len(timer') = Len(timer)
           /\ \A k \in DOMAIN timer : timer'[k].length = timer[k].length
      /\ \A k \in DOMAIN aborted :
           (aborted'[k] /\ ~aborted[k]) =>
             /\ k = attempt + 1
             /\ rPc = "calling"
             /\ timer[k].state = "armed"
             /\ timer'[k].state = "fired" ]_vars

\* the third attempt, after a timed-out attempt, a sleep, a failed attempt
\* and another sleep, runs under a pending timer of the full half second
C24_Witness ==
  /\ rPc = "calling" /\ attempt = 2 /\ delay > 0
  /\ options.timeout = 500
  /\ timer = << [state |-> "fired", length |-> 500],
                [state |-> "cleared", length |-> 500],
                [state |-> "armed", length |-> 500] >>
  /\ aborted = <<TRUE, FALSE, FALSE>>

\* the 'Analyzing' and 'Completed' messages of the observer, in order
WindowMessages ==
  SelectSeq(progressLog, LAMBDA m : m.text \in {"Analyzing", "Completed"})

\* the windows that have resolved and been processed
WindowsResolved == IF aPc = "window" THEN windowsRun - 1 ELSE windowsRun

C26_AtMostOneRun == Cardinality(RunsInProgress) <= 1

\* C27: an invocation that cancelAnalysis has cancelled neither launches
\* another window nor stores its results afterwards, whatever is done to the
\* shared cancelToken later.
C27_CancelledRunStops ==
  [][ \A r \in RunIds :
        runs[r].cancelRequested =>
          /\ runs'[r].windows = runs[r].windows
          /\ runs'[r].stored = runs[r].stored ]_vars

\* C28: every sleep of withRetry between two attempts lasts at most maxDelay,
\* whatever the failure was classified as and whatever retry-after value
\* its response carries.
C28_SleepAtMostMaxDelay == rPc = "sleeping" => delay <= options.maxDelay

\* the timers of the invocation that are pending
PendingTimers == {k \in DOMAIN timer : timer[k].state = "armed"}

\* C29: when an attempt of fetchWithRetry has ended, by success, HTTP error,
\* network error or timeout, its timer is no longer pending; at most one
\* timer of the invocation is pending at any time, the one of the attempt
\* in progress; none is pending once fetchWithRetry has returned or raised;
\* and a controller is aborted only when the timer of its own attempt fired.
C29_TimerClearedWithAttempt ==
  /\ Cardinality(PendingTimers) <= 1
  /\ rPc = "calling" => PendingTimers = {attempt + 1}
  /\ rPc \in {"sleeping", "returned", "thrown"} => PendingTimers = {}
  /\ \A k \in DOMAIN timer : aborted[k] <=> timer[k].state = "fired"

\* fetchWithRetry has raised after three attempts: an HTTP error, a timeout
\* and another failure, each with its timer cleared or fired
C29_Witness ==
  /\ rPc = "thrown" /\ Len(timer) = 3
  /\ timer[1].state = "cleared"
  /\ timer[2].state = "fired"
  /\ timer[3].state = "cleared"
  /\ lastResponse # Undefined

\* every call of withRetry ends after at most maxRetries + 1 attempts and
\* maxRetries sleeps, and every window in flight resolves
RetryEndsAndWindowsResolve ==
  /\ [](rPc # "idle" => (Calls <= options.maxRetries + 1 /\ Sleeps <= options.maxRetries))
  /\ (rPc \in {"calling", "sleeping"}) ~> (rPc \in {"returned", "thrown"})
  /\ (aPc = "window" /\ InFlight # {}) ~> (InFlight = {})

\* C30 as stated: when everything awaited settles, every call of withRetry
\* ends after at most maxRetries + 1 attempts and maxRetries sleeps, every
\* window resolves, and analyzer.analyzeSheet reaches its return or the
\* Cancelled fault.
C30_EndsReturnedOrCancelled ==
  /\ RetryEndsAndWindowsResolve
  /\ (aPc \notin {"idle", "returned", "raised"}) ~>
       (aPc = "returned" \/ (aPc = "raised" /\ thrown = AnalysisCancelled))

\* C30: when everything awaited settles, every call of withRetry ends after
\* at most maxRetries + 1 attempts and maxRetries sleeps, every window
\* resolves, and analyzer.analyzeSheet reaches its return or raises: the
\* Cancelled fault, or the error of an engine call, of an unknown provider
\* or of the sheet summary.
C30_RunEnds ==
  /\ RetryEndsAndWindowsResolve
  /\ (aPc \notin {"idle", "returned", "raised"}) ~>
       (\/ aPc = "returned"
        \/ /\ aPc = "raised"
           /\ thrown \in {AnalysisCancelled, "Engine error", "Unknown AI provider"}
                          \cup {r.message : r \in SheetOutcomes})

\* a batch of two windows has run to its return
C30_Witness ==
  /\ aPc = "returned" /\ N = 4 /\ windowsRun = 2
  /\ InFlight = {} /\ rPc = "idle"

====
